---- MODULE Spec2Model ----
(***************************************************************************)
(* Model of the doubles scheduler of court-scheduler:                      *)
(* generateSchedule of src/src/utils/scheduler.js.                         *)
(*                                                                         *)
(* One call of generateSchedule is a run of the state machine: the call's  *)
(* arguments are fixed by Init, the validation and set-up of lines 73-117  *)
(* is one step, every iteration of the court loop (lines 130-409) is one   *)
(* step and the end of a round (lines 411-424) is one step.                *)
(*                                                                         *)
(* rng() is a nondeterministic draw.  The draws that choose among picked   *)
(* candidates, the jitter rng() * 1.5 added to a score and the             *)
(* comparator's rng() < 0.5 are kept as the full set of outcomes they can  *)
(* produce.  The draws that choose a position of baseOrder (the shuffle    *)
(* and the random swaps) take the values k / RngGrid, k < RngGrid; the     *)
(* runs that follow the fallback path draw the swaps on the finer grid     *)
(* k / FineGrid, which reaches every position of a roster of MaxPlayers.   *)
(***************************************************************************)
EXTENDS Integers, Sequences, FiniteSets, TLC

\* ---------------------------------------------------------------- bounds
MaxPlayers == 5
MaxCourts == 2
MaxRounds == 2
MaxHist == 1
RngGrid == 1
MaxClock == 2
LongRun == 3
HighCount == 10
MaxTable == 3
FineGrid == 5

\* ------------------------------------------------------ program constants
TopK == 3
TeamWeight == 10
LocalPairWeight == 80
FairWeight == 2
RestWeight == 5
ThirdOppWeight == 10
ThirdLocalWeight == 8
MatchupWeight == 120
FourthOppWeight == 8
ArrRestWeight == 2
SwapCount == 3
GroupSize == 4
FnvOffsetHigh == 33052
FnvOffsetLow == 40389
FnvPrimeLow == 403
FnvPrimeHigh == 256
Limb == 65536
Byte == 256
RandomScale == 1000000000

\* ----------------------------------------------------------- basic values
\* JavaScript's undefined, as it appears in a picked group or as a map key.
Undef == 0
Ids == 1..MaxPlayers

Min2(a, b) == IF a < b THEN a ELSE b
Max2(a, b) == IF a > b THEN a ELSE b

\* Math.ceil(a / b) for integers a and b # 0, of either sign.
CeilDiv(a, b) ==
  IF b > 0 THEN -((-a) \div b) ELSE -(a \div (-b))

ToSet(s) == { s[i] : i \in 1..Len(s) }

RECURSIVE SeqFilter(_, _)
\* array.filter(p => p \notin drop)
SeqFilter(s, drop) ==
  IF s = <<>> THEN <<>>
  ELSE IF Head(s) \in drop THEN SeqFilter(Tail(s), drop)
       ELSE <<Head(s)>> \o SeqFilter(Tail(s), drop)

\* s with the entries at the 0-based positions i and j exchanged.
SwapAt(s, i, j) ==
  [k \in 1..Len(s) |->
     IF k = i + 1 THEN s[j + 1] ELSE IF k = j + 1 THEN s[i + 1] ELSE s[k]]

\* The values of Math.floor(rng() * n) where it picks one of n candidates.
PickIndex(n) == 0..(n - 1)

\* The values of Math.floor(rng() * n) for the draws k / grid, k < grid.
PositionDrawOn(n, grid) == { (k * n) \div grid : k \in 0..(grid - 1) }

\* The values of Math.floor(rng() * n) where it picks a position of
\* baseOrder, for the draws k / RngGrid.
PositionDraw(n) == PositionDrawOn(n, RngGrid)

\* map.get(key) || 0, and obj[key] || 0
Get(map, key) == IF key \in DOMAIN map THEN map[key] ELSE 0

\* map.set(key, (map.get(key) || 0) + 1)
Incr(map, key) ==
  [k \in DOMAIN map \cup {key} |-> IF k = key THEN Get(map, key) + 1 ELSE map[k]]

EmptyMap == [k \in {} |-> 0]

\* ---------------------------------------------------------- pair keys
\* a < b of two player ids; false as soon as one of them is undefined.
IdLess(a, b) == a # Undef /\ b # Undef /\ a < b

\* canonicalPairKey(a, b): the string `${a}|${b}` or `${b}|${a}`, kept as a pair.
canonicalPairKey(a, b) == IF IdLess(a, b) THEN <<a, b>> ELSE <<b, a>>

\* Order of two ids inside a key string: "undefined" sorts after every id.
StrLess(a, b) ==
  IF a = Undef THEN FALSE ELSE IF b = Undef THEN TRUE ELSE a < b

\* teamAKey < teamBKey, the string comparison of two pair keys.
KeyLess(k1, k2) ==
  \/ StrLess(k1[1], k2[1])
  \/ k1[1] = k2[1] /\ StrLess(k1[2], k2[2])

\* The canonical team-versus-team key `${teamAKey}|${teamBKey}`.
MatchKey(teamAKey, teamBKey) ==
  IF KeyLess(teamAKey, teamBKey) THEN <<teamAKey, teamBKey>>
  ELSE <<teamBKey, teamAKey>>

\* teammatePenalty returning the count itself, not its square.
teammatePenaltyLinear(a, b, pairingMap) ==
  Get(pairingMap, canonicalPairKey(a, b))

\* teammatePenalty looking its pair up as `${a}|${b}`, not under the
\* canonical key.
teammatePenaltyUnkeyed(a, b, pairingMap) ==
  LET cnt == Get(pairingMap, <<a, b>>) IN cnt * cnt

teammatePenalty(a, b, pairingMap) ==
  LET cnt == Get(pairingMap, canonicalPairKey(a, b)) IN cnt * cnt

opponentPenalty(a, b, opponentMap) ==
  Get(opponentMap, canonicalPairKey(a, b))

\* ------------------------------------------------------------- state
VARIABLES
  playersIsArray,   \* argument: whether `players` is an array at all
  players,          \* argument: the roster, a sequence of ids
  courts,           \* argument
  matchesPerCourt,  \* argument
  noDoubleRest,     \* argument
  randomize,        \* argument
  date,             \* argument: the date string, as character codes
  pairingHistory,   \* argument: the caller's teammate-history Map
  opponentHistory,  \* argument: the caller's opponent-history Map
  clock,            \* Date.now() at the call, in ticks
  callNo,           \* which call of generateSchedule this is: 1 or 2
  prior,            \* what the first call drew and gave, kept for the second
  pc,               \* "call", "court", "endRound", "returned", "threw"
  seed,             \* the 32-bit seed of the call's rng, <<high, low>> halves
  baseOrder,
  totalMatches,
  roundsNeeded,
  playCount,
  restCount,
  pairUsage,
  matchupUsage,
  matches,
  matchIndex,
  round,            \* the round loop's variable (0-based)
  court,            \* the court loop's variable (1-based)
  assignedInRound,
  result            \* the returned list, once pc = "returned"

\* The state of generatePairSchedule (pairScheduler.js), the scheduler of
\* fixed pairs, which shares nothing with generateSchedule.
VARIABLES
  pairsIsArray,         \* argument: whether `pairs` is an array at all
  pairs,                \* argument: the pairs, a sequence of pair ids
  pairCourts,           \* argument `courts`
  pairMatchesPerCourt,  \* argument `matchesPerCourt`
  pairOrder,            \* `order`: the shuffled teams, with the bye when there is one
  rot,                  \* the rotating copy of `order`
  pairMatches,          \* `matches`
  rotRound,             \* the rotation loop's `round`
  fillIndex,            \* the fill-up loop's `i`
  pairPc,               \* "idle", "call", "rotation", "fill", "returned"
  pairResult            \* the returned list, once pairPc = "returned"

pairArgs == <<pairsIsArray, pairs, pairCourts, pairMatchesPerCourt>>
pairRun == <<pairOrder, rot, pairMatches, rotRound, fillIndex, pairPc, pairResult>>
pairVars == <<pairArgs, pairRun>>

\* generatePairSchedule is not running.
PairIdle ==
  /\ pairsIsArray = FALSE
  /\ pairs = <<>>
  /\ pairCourts = 0
  /\ pairMatchesPerCourt = 0
  /\ pairOrder = <<>>
  /\ rot = <<>>
  /\ pairMatches = <<>>
  /\ rotRound = 0
  /\ fillIndex = 0
  /\ pairPc = "idle"
  /\ pairResult = <<>>

\* The state of generateAssignments (assignments.js, in App.jsx), the
\* randomized local search.
VARIABLES
  assignIsArray,   \* argument: whether `players` is an array at all
  assignPlayers,   \* argument `players`: records with id and last_played
  assignCourts,    \* argument `courts`
  numMatches,      \* argument
  pairCounts,      \* argument: teammate counts by pair key
  oppCounts,       \* argument: opponent counts by pair key
  attempts,        \* argument
  attempt,         \* the loop's variable
  bestAttempt,     \* `best`: the best attempt so far, with its score
  assignPc,        \* "idle", "call", "loop", "returned"
  assignResult     \* the returned object, once assignPc = "returned"

assignArgs == <<assignIsArray, assignPlayers, assignCourts, numMatches,
                pairCounts, oppCounts, attempts>>
assignRun == <<attempt, bestAttempt, assignPc, assignResult>>
assignVars == <<assignArgs, assignRun>>

\* best.score = Infinity
Infinity == -1
\* No best attempt and no result yet.
NoBest == [assignments |-> <<>>, rest |-> <<>>, score |-> Infinity]

\* generateAssignments is not running.
AssignIdle ==
  /\ assignIsArray = FALSE
  /\ assignPlayers = <<>>
  /\ assignCourts = 0
  /\ numMatches = 0
  /\ pairCounts = [k \in {} |-> 0]
  /\ oppCounts = [k \in {} |-> 0]
  /\ attempts = 0
  /\ attempt = 0
  /\ bestAttempt = NoBest
  /\ assignPc = "idle"
  /\ assignResult = NoBest

\* The state of saveScheduleToDb and createManualMatch
\* (src/unnamed/part_005): the rows of the matches table for one date, the
\* next row id of the table, and the calls under way.
VARIABLES
  dbMatches,        \* the stored rows, records [id, match_index]
  dbNextId,         \* the id the table gives to the next row
  dbCalls           \* per caller: its arguments, its position, its locals

dbVars == <<dbMatches, dbNextId, dbCalls>>

\* No call, an empty table.
DbIdle ==
  /\ dbMatches = {}
  /\ dbNextId = 1
  /\ dbCalls = <<>>

\* The state of useAuth and ProtectedRoute (src/unnamed/part_006,
\* src/src/components/ConfirmModal.jsx).
VARIABLES
  authSession,      \* the session the auth service holds, NoSession or a user
  authUser,         \* const [user, setUser] = useState(null)
  mounted,          \* let mounted
  authPc,           \* the position of the effect and of getSession()
  authEvents,       \* the auth state changes not yet handed to the listener
  authChanges,      \* the sign-ins and sign-outs so far
  renderPending,    \* user was set and ProtectedRoute has not rendered since
  view              \* what ProtectedRoute returned last

authVars == <<authSession, authUser, mounted, authPc, authEvents, authChanges,
              renderPending, view>>

\* session?.user ?? null of no session, and useState(null)
NoSession == "null"

\* The route is not open.
AuthIdle ==
  /\ authSession = NoSession
  /\ authUser = NoSession
  /\ mounted = FALSE
  /\ authPc = "idle"
  /\ authEvents = <<>>
  /\ authChanges = 0
  /\ renderPending = FALSE
  /\ view = "idle"

\* The programs other than generateSchedule.
others == <<pairVars, assignVars, dbVars, authVars>>
OthersIdle == PairIdle /\ AssignIdle /\ DbIdle /\ AuthIdle

args == <<playersIsArray, players, courts, matchesPerCourt, noDoubleRest,
          randomize, date>>
histories == <<pairingHistory, opponentHistory>>
inputs == <<args, histories>>
counters == <<playCount, restCount, pairUsage, matchupUsage>>
loop == <<baseOrder, totalMatches, roundsNeeded, matches, matchIndex,
          round, court, assignedInRound>>
\* Everything one call computes.
run == <<counters, loop, pc, result>>
calls == <<clock, callNo, prior>>
vars == <<inputs, run, seed, calls, others>>

\* ------------------------------------------------------------- inputs
\* Rosters of pairwise distinct ids, of every length up to MaxPlayers.
DistinctRosters == { [i \in 1..n |-> i] : n \in 0..MaxPlayers }

\* Rosters in which an id is listed twice, and one that lists a single id.
RepeatRosters ==
  { [i \in 1..n |-> IF i = 1 THEN 1 ELSE i - 1] : n \in GroupSize..MaxPlayers }
    \cup { [i \in 1..GroupSize |-> 1] }

Rosters == DistinctRosters \cup RepeatRosters

\* The caller's history maps: both empty, or each with one pair counted up
\* to MaxHist times.
Histories ==
  { [team |-> EmptyMap, opp |-> EmptyMap] }
    \cup { [team |-> [k \in {<<1, 2>>} |-> c], opp |-> [k \in {<<1, 3>>} |-> c]] :
            c \in 1..MaxHist }

\* "2025-01-01"
Dates == { <<50, 48, 50, 53, 45, 48, 49, 45, 48, 49>> }

NoSeed == <<0, 0>>
NoPrior == [seed |-> NoSeed, pc |-> "call", result |-> <<>>, trail |-> <<>>]

\* The state of a call that has not started.
Fresh ==
  /\ pc = "call"
  /\ seed = NoSeed
  /\ baseOrder = <<>>
  /\ totalMatches = 0
  /\ roundsNeeded = 0
  /\ playCount = EmptyMap
  /\ restCount = EmptyMap
  /\ pairUsage = EmptyMap
  /\ matchupUsage = EmptyMap
  /\ matches = <<>>
  /\ matchIndex = 1
  /\ round = 0
  /\ court = 1
  /\ assignedInRound = {}
  /\ result = <<>>

Init ==
  /\ playersIsArray \in BOOLEAN
  /\ players \in (IF playersIsArray THEN Rosters ELSE {<<>>})
  /\ courts \in -1..MaxCourts
  /\ matchesPerCourt \in -1..MaxRounds
  /\ noDoubleRest \in BOOLEAN
  /\ randomize \in BOOLEAN
  /\ date \in Dates
  /\ \E h \in Histories : pairingHistory = h.team /\ opponentHistory = h.opp
  /\ clock = 1
  /\ callNo = 1
  /\ prior = NoPrior
  /\ Fresh
  /\ OthersIdle

\* ---------------------------------------------- the seed (lines 21-37, 79-85)
RECURSIVE BitXor(_, _)
\* a ^ b of two non-negative integers
BitXor(a, b) ==
  IF a = 0 THEN b
  ELSE IF b = 0 THEN a
  ELSE (((a % 2) + (b % 2)) % 2) + 2 * BitXor(a \div 2, b \div 2)

\* One round of the loop of hashStringToSeed on h = <<high, low>>, the two
\* 16-bit halves of the unsigned 32-bit h: h ^= code, then
\* Math.imul(h, 16777619) >>> 0, where 16777619 = 256 * 65536 + 403.
HashStep(h, code) ==
  LET low == BitXor(h[2], code)
      lowProduct == low * FnvPrimeLow
  IN << ((h[1] * FnvPrimeLow) + (lowProduct \div Limb) + ((low % Byte) * FnvPrimeHigh)) % Limb,
        lowProduct % Limb >>

RECURSIVE HashFrom(_, _)
HashFrom(h, str) ==
  IF str = <<>> THEN h ELSE HashFrom(HashStep(h, Head(str)), Tail(str))

hashStringToSeed(str) == HashFrom(<<FnvOffsetHigh, FnvOffsetLow>>, str)

RECURSIVE Digits(_)
\* String(n) of a non-negative integer, as character codes
Digits(n) ==
  IF n < 10 THEN <<48 + n>> ELSE Digits(n \div 10) \o <<48 + (n % 10)>>

\* The entropy built whether or not randomize is set: the conditional of
\* line 80 dropped.
EntropiesAlways(rand, now) ==
  { Digits(now) \o <<45>> \o Digits(k * (RandomScale \div RngGrid)) :
      k \in 0..(RngGrid - 1) }

\* The strings `${Date.now()}-${Math.floor(Math.random() * 1e9)}` the call can
\* build at time now, Math.random() drawing k / RngGrid; "" without randomize.
Entropies(rand, now) ==
  IF rand
    THEN { Digits(now) \o <<45>> \o Digits(k * (RandomScale \div RngGrid)) :
             k \in 0..(RngGrid - 1) }
    ELSE { <<>> }

\* hashStringToSeed(`${date}::${entropy}`) for every entropy the call can build
Seeds == { hashStringToSeed(date \o <<58, 58>> \o e) : e \in Entropies(randomize, clock) }

\* ------------------------------------------------- set-up (lines 73-117)
RECURSIVE ShuffleFrom(_, _)
\* The arrays the loop of seededShuffle can leave, from 0-based position i down.
ShuffleFrom(a, i) ==
  IF i < 1 THEN {a}
  ELSE UNION { ShuffleFrom(SwapAt(a, i, j), i - 1) : j \in PositionDraw(i + 1) }

seededShuffle(array) == ShuffleFrom(array, Len(array) - 1)

\* totalMatches taken as a magnitude: Math.abs in place of Math.max(0, ...).
TotalMatchesAbs(c, m) == IF c * m < 0 THEN -(c * m) ELSE c * m

\* Math.max(0, Math.floor(courts) * Math.floor(matchesPerCourt))
TotalMatches(c, m) == Max2(0, c * m)

\* The validation written as !players || !players.length: an empty list is
\* rejected like a value that is no array.
IsNoArrayOrEmpty == ~playersIsArray \/ Len(players) = 0

\* !Array.isArray(players)
IsNoArray == ~playersIsArray

\* P < 2 or P < 4: not enough players for doubles
TooFewPlayers(p) == Len(p) < GroupSize

\* throw new Error("players must be an array of ids")
RejectNotArray ==
  /\ pc = "call"
  /\ IsNoArray
  /\ pc' = "threw"
  /\ UNCHANGED <<inputs, counters, loop, result, seed>>

\* if (P < 4) return []
ReturnTooFew ==
  /\ pc = "call"
  /\ ~IsNoArray
  /\ TooFewPlayers(players)
  /\ pc' = "returned"
  /\ result' = <<>>
  /\ UNCHANGED <<inputs, counters, loop, seed>>

\* if (totalMatches <= 0) return [], after the shuffle
ReturnNoMatches ==
  /\ pc = "call"
  /\ ~IsNoArray
  /\ ~TooFewPlayers(players)
  /\ TotalMatches(courts, matchesPerCourt) <= 0
  /\ seed' \in Seeds
  /\ baseOrder' \in seededShuffle(players)
  /\ totalMatches' = TotalMatches(courts, matchesPerCourt)
  /\ pc' = "returned"
  /\ result' = <<>>
  /\ UNCHANGED <<inputs, counters, roundsNeeded, matches, matchIndex,
                 round, court, assignedInRound>>

\* The call gets as far as the round loop; with roundsNeeded <= 0 the loop
\* body never runs and matches.slice(0, totalMatches) is returned at once.
Begin ==
  /\ pc = "call"
  /\ ~IsNoArray
  /\ ~TooFewPlayers(players)
  /\ TotalMatches(courts, matchesPerCourt) > 0
  /\ seed' \in Seeds
  /\ \E order \in seededShuffle(players) :
       /\ baseOrder' = order
       /\ playCount' = [p \in ToSet(order) |-> 0]
       /\ restCount' = [p \in ToSet(order) |-> 0]
  /\ totalMatches' = TotalMatches(courts, matchesPerCourt)
  /\ roundsNeeded' = CeilDiv(TotalMatches(courts, matchesPerCourt), courts)
  /\ pairUsage' = EmptyMap
  /\ matchupUsage' = EmptyMap
  /\ matches' = <<>>
  /\ matchIndex' = 1
  /\ round' = 0
  /\ court' = 1
  /\ assignedInRound' = {}
  /\ pc' = IF roundsNeeded' > 0 THEN "court" ELSE "returned"
  /\ result' = <<>>
  /\ UNCHANGED inputs

\* --------------------------------------- the pool of a slot (lines 120-133)
\* The comparator of buildPool on a and b where it does not draw: a sorts
\* before b by restCount (with noDoubleRest), then by playCount.
RankLess(a, b) ==
  IF noDoubleRest /\ restCount[a] # restCount[b]
    THEN restCount[a] < restCount[b]
    ELSE playCount[a] < playCount[b]

RemoveAt(s, i) == SubSeq(s, 1, i - 1) \o SubSeq(s, i + 1, Len(s))

RECURSIVE SortedOrders(_)
\* Every order sort() can leave s in: ascending by the comparator, and, as
\* the comparator draws rng() < 0.5 for two players of equal rank, with the
\* players of equal rank in any order.
SortedOrders(s) ==
  IF s = <<>> THEN {<<>>}
  ELSE UNION { { <<s[i]>> \o r : r \in SortedOrders(RemoveAt(s, i)) } :
               i \in { k \in 1..Len(s) :
                         \A j \in 1..Len(s) : ~RankLess(s[j], s[k]) } }

buildPool == SortedOrders(baseOrder)

\* buildPool().filter((p) => !assignedInRound.has(p))
PoolSorted == { SeqFilter(o, assignedInRound) : o \in buildPool }

\* poolSorted.length, the same for every order
PoolLength == Len(SeqFilter(baseOrder, assignedInRound))

\* ----------------------------------------- the four picks (lines 178-278)
\* rng() * 1.5 lies in [0, 1.5) and every other term of a score is an
\* integer: a candidate can end with the lowest score exactly when its
\* integer score is at most JitterReach above the lowest integer score.
JitterReach == 1

\* The candidates a scoring loop can end on: bestX[Math.floor(rng() *
\* bestX.length)], which is undefined when there is no candidate at all.
\* score[c] is the integer part of candidate c's score.
Winners(cands, score) ==
  IF cands = {} THEN {Undef}
  ELSE LET best == CHOOSE b \in { score[c] : c \in cands } :
                     \A c \in cands : b <= score[c]
       IN { c \in cands : score[c] <= best + JitterReach }

\* (playCount[cand] || 0) * 2 + (noDoubleRest ? (restCount[cand] || 0) * 5 : 0)
FairTerms(cand) ==
  Get(playCount, cand) * FairWeight
    + (IF noDoubleRest THEN Get(restCount, cand) * RestWeight ELSE 0)

SecondScore(first, cand) ==
  teammatePenalty(first, cand, pairingHistory) * TeamWeight
    + Get(pairUsage, canonicalPairKey(first, cand)) * LocalPairWeight
    + FairTerms(cand)

ThirdScore(first, second, cand) ==
  (opponentPenalty(first, cand, opponentHistory)
     + opponentPenalty(second, cand, opponentHistory)) * ThirdOppWeight
    + Get(pairUsage, canonicalPairKey(cand, first)) * ThirdLocalWeight
    + Get(pairUsage, canonicalPairKey(cand, second)) * ThirdLocalWeight
    + FairTerms(cand)

FourthScore(first, second, third, cand) ==
  teammatePenalty(third, cand, pairingHistory) * TeamWeight
    + Get(pairUsage, canonicalPairKey(third, cand)) * LocalPairWeight
    + Get(matchupUsage, MatchKey(canonicalPairKey(first, second),
                                 canonicalPairKey(third, cand))) * MatchupWeight
    + (opponentPenalty(first, cand, opponentHistory)
         + opponentPenalty(second, cand, opponentHistory)) * FourthOppWeight
    + FairTerms(cand)

\* The first pick drawn over the whole pool: rng() * poolSorted.length.
FirstPicksAny(poolSorted) ==
  { poolSorted[i + 1] : i \in PickIndex(Len(poolSorted)) }

\* poolSorted[Math.floor(rng() * FIRST_POOL)]
FirstPicks(poolSorted) ==
  { poolSorted[i + 1] : i \in PickIndex(Min2(TopK, Len(poolSorted))) }

\* afterFirst, afterSecond and afterThird, as sets of candidates
AfterPick(cands, picked) == cands \ {picked}

\* The second, third and fourth pick made among all of baseOrder, the
\* players assigned in the round included.
PickedFromAll(first) ==
  LET pool == ToSet(baseOrder) IN
  UNION { UNION {
    { <<first, second, third, fourth>> :
        fourth \in Winners(AfterPick(AfterPick(AfterPick(pool, first), second), third),
                           [c \in pool |-> FourthScore(first, second, third, c)]) } :
      third \in Winners(AfterPick(AfterPick(pool, first), second),
                        [c \in pool |-> ThirdScore(first, second, c)]) } :
    second \in Winners(AfterPick(pool, first),
                       [c \in pool |-> SecondScore(first, c)]) }

\* The groups [first, second, third, fourth] the picks can make once the
\* first pick is made.
PickedFrom(first) ==
  LET pool == ToSet(SeqFilter(baseOrder, assignedInRound)) IN
  UNION { UNION {
    { <<first, second, third, fourth>> :
        fourth \in Winners(AfterPick(AfterPick(AfterPick(pool, first), second), third),
                           [c \in pool |-> FourthScore(first, second, third, c)]) } :
      third \in Winners(AfterPick(AfterPick(pool, first), second),
                        [c \in pool |-> ThirdScore(first, second, c)]) } :
    second \in Winners(AfterPick(pool, first),
                       [c \in pool |-> SecondScore(first, c)]) }

\* ------------------------------------ distinctness (lines 280-295, 136-142)
RECURSIVE Dedupe(_)
\* [...new Set(group)]: the first occurrence of every value, in order
Dedupe(s) ==
  IF s = <<>> THEN <<>>
  ELSE <<Head(s)>> \o Dedupe(SeqFilter(Tail(s), {Head(s)}))

RECURSIVE FillFrom(_, _)
\* for (const p of src) { if (!uniq.includes(p)) uniq.push(p);
\*                        if (uniq.length >= 4) break; }
FillFrom(uniq, src) ==
  IF src = <<>> THEN uniq
  ELSE LET u == IF Head(src) \in ToSet(uniq) THEN uniq
                ELSE Append(uniq, Head(src))
       IN IF Len(u) >= GroupSize THEN u ELSE FillFrom(u, Tail(src))

\* uniq after the two fill loops, which run only while uniq is short
Uniq(group, poolSorted) ==
  LET u0 == SubSeq(Dedupe(group), 1, Min2(GroupSize, Len(Dedupe(group))))
      u1 == IF Len(u0) < GroupSize THEN FillFrom(u0, poolSorted) ELSE u0
  IN IF Len(u1) < GroupSize THEN FillFrom(u1, baseOrder) ELSE u1

\* Every uniq the normal path can reach in this slot.  The picks read
\* poolSorted only through the first pick; the order itself matters only to
\* the fill loop, which then runs over an order that gave this first pick.
UniqGroups ==
  UNION { UNION {
    IF Len(Dedupe(g)) >= GroupSize
      THEN { Uniq(g, <<>>) }
      ELSE { Uniq(g, ps) : ps \in { o \in PoolSorted : g[1] \in FirstPicks(o) } } :
    g \in PickedFrom(first) } :
  first \in UNION { FirstPicks(ps) : ps \in PoolSorted } }

\* The fallback group: the first four distinct entries of baseOrder
\* (fewer when baseOrder has fewer distinct entries).
Fallback == FillFrom(<<>>, baseOrder)

\* arrangementPenalty without the penalties of lines 320-330: the histories,
\* the play counts and the rest counts alone.
arrangementPenaltyHistoryOnly(arr) ==
  LET a == arr[1]
      b == arr[2]
      c == arr[3]
      d == arr[4]
  IN teammatePenalty(a, b, pairingHistory) * TeamWeight
       + teammatePenalty(c, d, pairingHistory) * TeamWeight
       + opponentPenalty(a, c, opponentHistory)
       + opponentPenalty(a, d, opponentHistory)
       + opponentPenalty(b, c, opponentHistory)
       + opponentPenalty(b, d, opponentHistory)
       + Get(playCount, a) + Get(playCount, b)
       + Get(playCount, c) + Get(playCount, d)
       + (IF noDoubleRest
            THEN (Get(restCount, a) + Get(restCount, b)
                    + Get(restCount, c) + Get(restCount, d)) * ArrRestWeight
            ELSE 0)

\* ------------------------------------------- arrangement (lines 297-350)
arrangementPenalty(arr) ==
  LET a == arr[1]
      b == arr[2]
      c == arr[3]
      d == arr[4]
  IN teammatePenalty(a, b, pairingHistory) * TeamWeight
       + teammatePenalty(c, d, pairingHistory) * TeamWeight
       + opponentPenalty(a, c, opponentHistory)
       + opponentPenalty(a, d, opponentHistory)
       + opponentPenalty(b, c, opponentHistory)
       + opponentPenalty(b, d, opponentHistory)
       + Get(playCount, a) + Get(playCount, b)
       + Get(playCount, c) + Get(playCount, d)
       + (IF noDoubleRest
            THEN (Get(restCount, a) + Get(restCount, b)
                    + Get(restCount, c) + Get(restCount, d)) * ArrRestWeight
            ELSE 0)
       + Get(pairUsage, canonicalPairKey(a, b)) * LocalPairWeight
       + Get(pairUsage, canonicalPairKey(c, d)) * LocalPairWeight
       + Get(matchupUsage, MatchKey(canonicalPairKey(a, b),
                                    canonicalPairKey(c, d))) * MatchupWeight

\* Try1 with its last index mistyped: orig[2] where orig[3] is meant.
Try1Repeats(orig) == <<orig[1], orig[3], orig[2], orig[3]>>
\* Try2 reading past the end of orig: orig[4] is undefined.
Try2PastEnd(orig) == <<orig[1], orig[4], orig[3], Undef>>

\* candArrangements = [orig, try1, try2]
Try1(orig) == <<orig[1], orig[3], orig[2], orig[4]>>
Try2(orig) == <<orig[1], orig[4], orig[3], orig[2]>>
candArrangements(orig) == <<orig, Try1(orig), Try2(orig)>>

\* tied without the comparison of scores: every arrangement is kept.
TiedAll(orig) == candArrangements(orig)

\* tied: the arrangements of lowest penalty, in the order of candArrangements
Tied(orig) ==
  LET cand == candArrangements(orig)
      bestScore == CHOOSE b \in { arrangementPenalty(cand[i]) : i \in 1..Len(cand) } :
                     \A i \in 1..Len(cand) : b <= arrangementPenalty(cand[i])
      RECURSIVE Keep(_)
      Keep(i) == IF i > Len(cand) THEN <<>>
                 ELSE IF arrangementPenalty(cand[i]) = bestScore
                   THEN <<cand[i]>> \o Keep(i + 1)
                   ELSE Keep(i + 1)
  IN Keep(1)

\* bestArr = tied[Math.floor(rng() * tied.length)]
BestArrangements(orig) ==
  { Tied(orig)[i + 1] : i \in PickIndex(Len(Tied(orig))) }

\* playCount updated for the first three players of the group only.
CountPlayedThree(pcnt, group) ==
  Incr(Incr(Incr(pcnt, group[1]), group[2]), group[3])

\* ------------------------------------ bookkeeping (lines 143-173, 366-389)
\* finalGroup.forEach((p) => playCount[p] = (playCount[p] || 0) + 1)
CountPlayed(pcnt, group) ==
  Incr(Incr(Incr(Incr(pcnt, group[1]), group[2]), group[3]), group[4])

\* pairUsage counting the first team of the group only.
CountPairsFirstTeam(usage, group) ==
  Incr(usage, canonicalPairKey(group[1], group[2]))

\* pairUsage after both teams of the group are counted
CountPairs(usage, group) ==
  Incr(Incr(usage, canonicalPairKey(group[1], group[2])),
       canonicalPairKey(group[3], group[4]))

\* matchupUsage after the team-versus-team key of the group is counted
CountMatchup(usage, group) ==
  Incr(usage, MatchKey(canonicalPairKey(group[1], group[2]),
                       canonicalPairKey(group[3], group[4])))

\* The bookkeeping counting the two teams in the caller's pairingHistory,
\* whose keys have the same form, in place of pairUsage.
RecordedInHistory(group) ==
  [pairUsage |-> pairUsage,
   matchupUsage |-> CountMatchup(matchupUsage, group),
   pairingHistory |-> CountPairs(pairingHistory, group),
   opponentHistory |-> opponentHistory]

\* The four maps after the bookkeeping of a match (lines 155-172, 380-389):
\* it sets entries of pairUsage and matchupUsage, the maps of the run, and
\* only reads the caller's two history maps.
Recorded(group) ==
  [pairUsage |-> CountPairs(pairUsage, group),
   matchupUsage |-> CountMatchup(matchupUsage, group),
   pairingHistory |-> pairingHistory,
   opponentHistory |-> opponentHistory]

\* The record with match_index: ++matchIndex in place of matchIndex++.
NewMatchPreIncrement(index, rnd, crt, group) ==
  [match_index |-> index + 1, round |-> rnd + 1, court |-> crt, players |-> group]

\* The record pushed on matches.
NewMatch(index, rnd, crt, group) ==
  [match_index |-> index, round |-> rnd + 1, court |-> crt, players |-> group]

\* The court assignment the source has commented out (lines 353-361): a
\* court that holds the fewest matches so far, here the highest such court.
ChosenCourtBalanced ==
  LET count(c) == Cardinality({ i \in 1..Len(matches) : matches[i].court = c })
  IN CHOOSE c \in 1..courts :
       /\ \A d \in 1..courts : count(c) <= count(d)
       /\ \A d \in 1..courts : count(d) = count(c) => d <= c

\* The court given to a match of the normal path: the loop index.
ChosenCourt == court

\* The court loop with its bound off by one: court < courts.
AfterSlotShort(nextCourt, nMatches) ==
  IF nextCourt < courts /\ nMatches < totalMatches THEN "court" ELSE "endRound"

\* The court loop without its bound: for (let court = 1; ; court++).
AfterSlotUnbounded(nextCourt, nMatches) ==
  IF nMatches < totalMatches THEN "court" ELSE "endRound"

\* The court loop's next position: its header, and the check of line 131.
AfterSlot(nextCourt, nMatches) ==
  IF nextCourt <= courts /\ nMatches < totalMatches THEN "court" ELSE "endRound"

\* ----------------------------- baseOrder after a match (lines 391-408)
\* players who did not just play, then those who did, each in baseOrder's order
Rotate(order, group) ==
  SeqFilter(order, ToSet(group)) \o SeqFilter(order, ToSet(order) \ ToSet(group))

RECURSIVE SwapsFrom(_, _, _)
\* The orders the s-th and later random swaps can leave, their positions
\* drawn on the given grid.
SwapsFrom(order, s, grid) ==
  IF s >= Min2(SwapCount, Len(order)) THEN {order}
  ELSE UNION { SwapsFrom(SwapAt(order, i, j), s + 1, grid) :
               i \in PositionDrawOn(Len(order), grid),
               j \in PositionDrawOn(Len(order), grid) }

RandomSwaps(order, grid) == SwapsFrom(order, 0, grid)

\* --------------------------------------------- the court loop's body
\* Lines 135-174: fewer than 4 players are unassigned in the round and
\* baseOrder holds 4 distinct players, who make the match whether or not
\* they were assigned already.
FallbackSlot ==
  /\ pc = "court"
  /\ PoolLength < GroupSize
  /\ Len(Fallback) >= GroupSize
  /\ LET finalGroup == SubSeq(Fallback, 1, GroupSize) IN
       /\ assignedInRound' = assignedInRound \cup ToSet(finalGroup)
       /\ playCount' = CountPlayed(playCount, finalGroup)
       /\ matches' = Append(matches, NewMatch(matchIndex, round, court, finalGroup))
       /\ matchIndex' = matchIndex + 1
       /\ pairUsage' = Recorded(finalGroup).pairUsage
       /\ matchupUsage' = Recorded(finalGroup).matchupUsage
       /\ pairingHistory' = Recorded(finalGroup).pairingHistory
       /\ opponentHistory' = Recorded(finalGroup).opponentHistory
  /\ court' = court + 1
  /\ pc' = AfterSlot(court', Len(matches'))
  /\ UNCHANGED <<args, seed, restCount, baseOrder, totalMatches,
                 roundsNeeded, round, result>>

\* Line 142: if (fallback.length < 4) break
FallbackBreak ==
  /\ pc = "court"
  /\ PoolLength < GroupSize
  /\ Len(Fallback) < GroupSize
  /\ pc' = "endRound"
  /\ UNCHANGED <<inputs, seed, counters, loop, result>>

\* Lines 176-408: the four picks, the arrangement, the record and the
\* reordering of baseOrder.
NormalSlotOn(grid) ==
  /\ pc = "court"
  /\ PoolLength >= GroupSize
  /\ \E uniq \in UniqGroups :
       /\ Len(uniq) >= GroupSize
       /\ \E finalGroup \in BestArrangements(SubSeq(uniq, 1, GroupSize)) :
            /\ matches' = Append(matches,
                                 NewMatch(matchIndex, round, ChosenCourt, finalGroup))
            /\ matchIndex' = matchIndex + 1
            /\ assignedInRound' = assignedInRound \cup ToSet(finalGroup)
            /\ playCount' = CountPlayed(playCount, finalGroup)
            /\ pairUsage' = Recorded(finalGroup).pairUsage
            /\ matchupUsage' = Recorded(finalGroup).matchupUsage
            /\ pairingHistory' = Recorded(finalGroup).pairingHistory
            /\ opponentHistory' = Recorded(finalGroup).opponentHistory
            /\ baseOrder' \in RandomSwaps(Rotate(baseOrder, finalGroup), grid)
  /\ court' = court + 1
  /\ pc' = AfterSlot(court', Len(matches'))
  /\ UNCHANGED <<args, seed, restCount, totalMatches, roundsNeeded, round,
                 result>>

\* The normal path with the swaps drawn on the grid of the shuffle.
NormalSlot == NormalSlotOn(RngGrid)

\* The normal path with the swaps drawn on the finer grid.
NormalSlotFine == NormalSlotOn(FineGrid)

\* Line 295: if (uniq.length < 4) break
NormalBreak ==
  /\ pc = "court"
  /\ PoolLength >= GroupSize
  /\ \E uniq \in UniqGroups : Len(uniq) < GroupSize
  /\ pc' = "endRound"
  /\ UNCHANGED <<inputs, seed, counters, loop, result>>

RECURSIVE RestedFromStreak(_, _)
\* The rest update keeping a streak: a player assigned in the round goes
\* back to 0.
RestedFromStreak(rest, order) ==
  IF order = <<>> THEN rest
  ELSE RestedFromStreak(IF Head(order) \in assignedInRound
                          THEN [rest EXCEPT ![Head(order)] = 0]
                          ELSE Incr(rest, Head(order)),
                        Tail(order))

\* ------------------------------------- the end of a round (lines 411-424)
RECURSIVE RestedFrom(_, _)
\* for (const p of order) if (!assignedInRound.has(p)) restCount[p] += 1
RestedFrom(rest, order) ==
  IF order = <<>> THEN rest
  ELSE RestedFrom(IF Head(order) \in assignedInRound THEN rest
                  ELSE Incr(rest, Head(order)),
                  Tail(order))

\* allHaveRestedOnce with some in place of every.
someHaveRestedOnce(rest) == \E i \in 1..Len(baseOrder) : rest[baseOrder[i]] >= 1

allHaveRestedOnce(rest) == \A i \in 1..Len(baseOrder) : rest[baseOrder[i]] >= 1

resetRestCycle(rest) ==
  [p \in DOMAIN rest \cup ToSet(baseOrder) |->
     IF p \in ToSet(baseOrder) THEN 0 ELSE rest[p]]

\* restCount after the round's update
RestAfterRound ==
  IF noDoubleRest
    THEN LET rested == RestedFrom(restCount, baseOrder)
         IN IF allHaveRestedOnce(rested) THEN resetRestCycle(rested) ELSE rested
    ELSE restCount

\* matches.slice(0, totalMatches)
Truncated == SubSeq(matches, 1, Min2(totalMatches, Len(matches)))

\* The rest update, then either the next round or the return.
EndRound ==
  /\ pc = "endRound"
  /\ restCount' = RestAfterRound
  /\ IF Len(matches) >= totalMatches \/ round + 1 >= roundsNeeded
       THEN /\ pc' = "returned"
            /\ result' = Truncated
            /\ UNCHANGED <<round, court, assignedInRound>>
       ELSE /\ pc' = "court"
            /\ round' = round + 1
            /\ court' = 1
            /\ assignedInRound' = {}
            /\ result' = result
  /\ UNCHANGED <<inputs, seed, playCount, pairUsage, matchupUsage, baseOrder,
                 totalMatches, roundsNeeded, matches, matchIndex>>

\* ------------------------------------------------------------- claims
\* The roster the claims speak of: an array of at least 4 pairwise distinct ids.
DistinctRoster ==
  /\ playersIsArray
  /\ Len(players) >= GroupSize
  /\ \A i, j \in 1..Len(players) : i # j => players[i] # players[j]

\* The matches built so far together with the returned ones.
Emitted == ToSet(matches) \cup ToSet(result)

\* Whether the match of the court slot (rnd, crt) was built by the fallback
\* path: the slots before it in the round left fewer than 4 roster players.
BuiltByFallback(m) ==
  Cardinality(ToSet(players)
                \ UNION { ToSet(x.players) :
                          x \in { y \in Emitted : y.round = m.round /\ y.court < m.court } })
    < GroupSize

\* C1: for a roster of at least 4 pairwise distinct ids, every match built or
\* returned holds exactly 4 players, pairwise distinct, on the normal and on
\* the fallback path.
C1_FourDistinctPlayers ==
  DistinctRoster =>
    \A m \in Emitted :
      Len(m.players) = GroupSize /\ Cardinality(ToSet(m.players)) = GroupSize

\* A returned schedule that holds a match of the normal path and a match of
\* the fallback path.
C1_Witness ==
  /\ pc = "returned"
  /\ DistinctRoster
  /\ \E m \in ToSet(result) : BuiltByFallback(m)
  /\ \E m \in ToSet(result) : ~BuiltByFallback(m)

\* C2: for a roster of at least 4 pairwise distinct ids, every player entry
\* of every match built or returned is an element of the input players list.
C2_PlayersFromRoster ==
  DistinctRoster =>
    \A m \in Emitted : \A k \in 1..Len(m.players) : m.players[k] \in ToSet(players)

\* A returned schedule of a roster of 5 in which both paths built a match and
\* a player of the first match of a round is used again in its second match.
C2_Witness ==
  /\ pc = "returned"
  /\ DistinctRoster
  /\ Len(players) > GroupSize
  /\ \E m, n \in ToSet(result) :
       /\ m.round = n.round /\ m.court < n.court
       /\ BuiltByFallback(n)
       /\ ToSet(m.players) \cap ToSet(n.players) # {}

\* C3: for a roster of at least 4 distinct ids and positive courts and
\* matchesPerCourt, the call returns exactly courts x matchesPerCourt matches.
C3_ExactCount ==
  (pc = "returned" /\ DistinctRoster /\ courts >= 1 /\ matchesPerCourt >= 1)
    => Len(result) = courts * matchesPerCourt

\* A returned schedule of full length with several rounds in which fewer than
\* 4 players were unassigned at some slot.
C3_Witness ==
  /\ pc = "returned"
  /\ DistinctRoster
  /\ courts > 1 /\ matchesPerCourt > 1
  /\ Len(result) = courts * matchesPerCourt
  /\ \E m \in ToSet(result) : BuiltByFallback(m)

\* C4: the match_index values of the list, built or returned, are 1, 2, ..., N
\* in list order.
C4_SequentialIndex ==
  /\ \A i \in 1..Len(matches) : matches[i].match_index = i
  /\ \A i \in 1..Len(result) : result[i].match_index = i

\* A returned list of at least 3 matches, one of them of the fallback path.
C4_Witness ==
  /\ pc = "returned"
  /\ Len(result) >= 3
  /\ \E m \in ToSet(result) : BuiltByFallback(m)

\* C5: for a roster of at least 4 distinct ids and positive courts and
\* matchesPerCourt, the k-th match has round ceil(k / courts) and court
\* ((k - 1) mod courts) + 1, and the returned list fills every round
\* 1..matchesPerCourt with courts 1..courts.
C5_RoundAndCourt ==
  (DistinctRoster /\ courts >= 1 /\ matchesPerCourt >= 1) =>
    /\ \A k \in 1..Len(matches) :
         /\ matches[k].round = CeilDiv(k, courts)
         /\ matches[k].court = ((k - 1) % courts) + 1
         /\ 1 <= matches[k].court /\ matches[k].court <= courts
    /\ pc = "returned" =>
         \A r \in 1..matchesPerCourt : \A c \in 1..courts :
           \E k \in 1..Len(result) : result[k].round = r /\ result[k].court = c

\* A returned schedule of 2 rounds on 2 courts.
C5_Witness ==
  /\ pc = "returned"
  /\ DistinctRoster
  /\ courts = 2 /\ matchesPerCourt = 2
  /\ Len(result) = 4

\* C6: a list of fewer than 4 players gives an empty list and no error,
\* whatever the other arguments are.
C6_ShortRosterEmpty ==
  (playersIsArray /\ Len(players) < GroupSize /\ pc # "call")
    => pc = "returned" /\ result = <<>>

\* The call has returned for a list of 3 players, 2 courts and 2 rounds with
\* noDoubleRest, randomize and non-empty histories.
C6_Witness ==
  /\ pc = "returned"
  /\ playersIsArray /\ Len(players) = 3
  /\ courts = 2 /\ matchesPerCourt = 2
  /\ noDoubleRest /\ randomize
  /\ pairingHistory # EmptyMap

\* C8: no step of the call adds, removes or changes an entry of the caller's
\* pairingHistory and opponentHistory; a step that builds a match counts its
\* two teams in pairUsage and its team-versus-team key in matchupUsage.
C8_HistoriesUntouched ==
  [][ /\ pairingHistory' = pairingHistory
      /\ opponentHistory' = opponentHistory
      /\ Len(matches') > Len(matches) =>
           LET g == matches'[Len(matches')].players IN
             /\ Get(pairUsage', canonicalPairKey(g[1], g[2]))
                  > Get(pairUsage, canonicalPairKey(g[1], g[2]))
             /\ Get(pairUsage', canonicalPairKey(g[3], g[4]))
                  > Get(pairUsage, canonicalPairKey(g[3], g[4]))
             /\ Get(matchupUsage', MatchKey(canonicalPairKey(g[1], g[2]),
                                            canonicalPairKey(g[3], g[4])))
                  > Get(matchupUsage, MatchKey(canonicalPairKey(g[1], g[2]),
                                               canonicalPairKey(g[3], g[4])))
    ]_vars

\* A returned run with non-empty histories that teamed the pair of the
\* teammate history again.
C8_Witness ==
  /\ pc = "returned"
  /\ pairingHistory # EmptyMap
  /\ opponentHistory # EmptyMap
  /\ \E k \in DOMAIN pairingHistory : Get(pairUsage, k) >= 1

\* C9, as claimed: with noDoubleRest, no player of the roster sits out a
\* second round of a rest cycle (the rounds since restCount was last reset)
\* before every player has sat out one: no restCount exceeds 1.
C9_NoSecondRest ==
  (noDoubleRest /\ DistinctRoster) =>
    \A p \in DOMAIN restCount : restCount[p] <= 1

\* C10, as claimed: a call with courts <= 0 or matchesPerCourt <= 0 ends with
\* an error raised.
C10_NonPositiveRaises ==
  (pc # "call" /\ playersIsArray /\ (courts <= 0 \/ matchesPerCourt <= 0))
    => pc = "threw"

\* C10, amended: a call with a list of players and courts <= 0 or
\* matchesPerCourt <= 0 raises no error, runs no round and returns the empty
\* list.
C10_NonPositiveReturnsEmpty ==
  (pc # "call" /\ playersIsArray /\ (courts <= 0 \/ matchesPerCourt <= 0))
    => pc = "returned" /\ result = <<>> /\ matches = <<>>

\* The call has returned for 4 or more players with both courts and
\* matchesPerCourt negative, whose product is positive.
C10_Witness ==
  /\ pc = "returned"
  /\ playersIsArray /\ Len(players) >= GroupSize
  /\ courts < 0 /\ matchesPerCourt < 0
  /\ totalMatches > 0

\* C11, as claimed: a roster that holds fewer than 4 distinct ids, repeats
\* included, forms no match and the call returns an empty list.
C11_FewDistinctEmpty ==
  (playersIsArray /\ Cardinality(ToSet(players)) < GroupSize) =>
    /\ matches = <<>>
    /\ pc = "returned" => result = <<>>

\* ------------------------------------------------------ specification
\* A step of a single call: nothing is kept for a second call.
Single == UNCHANGED <<calls, others>>

Next ==
  \/ RejectNotArray /\ Single
  \/ ReturnTooFew /\ Single
  \/ ReturnNoMatches /\ Single
  \/ Begin /\ Single
  \/ FallbackSlot /\ Single
  \/ FallbackBreak /\ Single
  \/ NormalSlot /\ Single
  \/ NormalBreak /\ Single
  \/ EndRound /\ Single

Spec == Init /\ [][Next]_vars

\* How far the two loops have come: the court iterations begun, counting
\* courts + 1 positions for a round (its court slots and its end).
Position ==
  round * (courts + 1) + (IF pc = "court" THEN court ELSE courts + 1)

\* Whether the call can take its next step from where it is.
CanStep ==
  \/ pc = "call"
       /\ \/ IsNoArray
          \/ TooFewPlayers(players)
          \/ Seeds # {} /\ seededShuffle(players) # {}
  \/ pc = "court"
       /\ \/ PoolLength < GroupSize
          \/ /\ UniqGroups # {}
             /\ \A uniq \in UniqGroups :
                  Len(uniq) >= GroupSize =>
                    \A g \in BestArrangements(SubSeq(uniq, 1, GroupSize)) :
                      RandomSwaps(Rotate(baseOrder, g), RngGrid) # {}
  \/ pc = "endRound"

\* C12: every call ends. Until it has returned or thrown the call can take a
\* step; the round loop's body runs for round 0 .. roundsNeeded - 1 only,
\* roundsNeeded being ceil(totalMatches / courts), and the court loop's body
\* for court 1 .. courts only; every step inside the loops moves them on; and
\* the matches built number at most one for each court iteration run so far.
C12_Terminates ==
  /\ [](pc \notin {"returned", "threw"} => CanStep)
  /\ [](pc \in {"court", "endRound"} =>
          /\ 0 <= round /\ round < roundsNeeded
          /\ roundsNeeded = CeilDiv(totalMatches, courts)
          /\ 1 <= court /\ court <= courts + 1
          /\ pc = "court" => court <= courts
          /\ Position <= roundsNeeded * (courts + 1)
          /\ Len(matches) <= round * courts + (court - 1))
  /\ [][(pc \in {"court", "endRound"} /\ pc' \in {"court", "endRound"})
          => Position' > Position]_vars

\* A call returns after its last round, the court loop having run `courts`
\* times in every round and built a match each time.
C12_Witness ==
  /\ pc = "returned"
  /\ roundsNeeded = MaxRounds
  /\ round = roundsNeeded - 1
  /\ court = courts + 1
  /\ courts = MaxCourts
  /\ Len(matches) = roundsNeeded * courts

\* -------------------------------------------- longer runs on one court
\* The caller's histories of a long run: both empty, or a teammate history
\* whose only entry counts one pair HighCount times, the opponent history
\* being empty.
LongHistories ==
  { [team |-> EmptyMap, opp |-> EmptyMap],
    [team |-> [k \in {<<1, 2>>} |-> HighCount], opp |-> EmptyMap] }

\* Runs of LongRun rounds on one court, without randomize, by a roster of
\* at least 4 distinct players.
InitLong ==
  /\ playersIsArray = TRUE
  /\ players \in { r \in DistinctRosters : Len(r) >= GroupSize }
  /\ courts = 1
  /\ matchesPerCourt = LongRun
  /\ noDoubleRest \in BOOLEAN
  /\ randomize = FALSE
  /\ date \in Dates
  /\ \E h \in LongHistories : pairingHistory = h.team /\ opponentHistory = h.opp
  /\ clock = 1
  /\ callNo = 1
  /\ prior = NoPrior
  /\ Fresh
  /\ OthersIdle

\* With a roster of 4 or more distinct players on one court every slot is
\* built by the normal path, and nothing breaks off.
NextLong ==
  \/ Begin /\ Single
  \/ NormalSlot /\ Single
  \/ EndRound /\ Single

SpecLong == InitLong /\ [][NextLong]_vars

\* The histories of the runs in which players rest: none, or one under
\* which three rounds of six players can rest every player once.
RestHistories ==
  { [team |-> EmptyMap, opp |-> EmptyMap],
    [team |-> [k \in {<<1, 2>>, <<1, 4>>, <<1, 6>>} |-> 1],
     opp |-> [k \in {<<3, 5>>} |-> 1]] }

\* Runs of LongRun rounds on one court in which players rest in every
\* round: two of MaxPlayers + 1 with noDoubleRest, so that a rest cycle can
\* end within the run, or one of MaxPlayers without.
InitRest ==
  /\ playersIsArray = TRUE
  /\ \/ players = [i \in 1..(MaxPlayers + 1) |-> i] /\ noDoubleRest = TRUE
     \/ players = [i \in 1..MaxPlayers |-> i] /\ noDoubleRest = FALSE
  /\ courts = 1
  /\ matchesPerCourt = LongRun
  /\ randomize = FALSE
  /\ date \in Dates
  /\ \E h \in RestHistories :
       pairingHistory = h.team /\ opponentHistory = h.opp
  /\ clock = 1
  /\ callNo = 1
  /\ prior = NoPrior
  /\ Fresh
  /\ OthersIdle

SpecRest == InitRest /\ [][NextLong]_vars

\* ------------------------------------------ rosters that fill the courts
\* A roster of exactly 4 x MaxCourts distinct players.
FullRoster == [i \in 1..(GroupSize * MaxCourts) |-> i]

\* Rosters of exactly 4 x courts players: one round on MaxCourts courts, or
\* LongRun rounds on one court.
InitFull ==
  /\ playersIsArray = TRUE
  /\ \/ players = FullRoster /\ courts = MaxCourts /\ matchesPerCourt = 1
        /\ noDoubleRest = FALSE
     \/ players = [i \in 1..GroupSize |-> i] /\ courts = 1
        /\ matchesPerCourt = LongRun /\ noDoubleRest \in BOOLEAN
  /\ randomize = FALSE
  /\ date \in Dates
  /\ \E h \in Histories : pairingHistory = h.team /\ opponentHistory = h.opp
  /\ clock = 1
  /\ callNo = 1
  /\ prior = NoPrior
  /\ Fresh
  /\ OthersIdle

NextFull ==
  \/ Begin /\ Single
  \/ NormalSlot /\ Single
  \/ EndRound /\ Single

SpecFull == InitFull /\ [][NextFull]_vars

\* The runs of InitFull by 4 players: LongRun rounds on one court.
InitFour == InitFull /\ Len(players) = GroupSize

SpecFour == InitFour /\ [][NextFull]_vars

\* ------------------------------------- claims about rosters and fairness
\* The number of matches of round r, built or returned, that player p is in.
Appearances(p, r) ==
  Cardinality({ m \in Emitted : m.round = r /\ p \in ToSet(m.players) })

\* The two teams of a match, as a set of two sets of players.
Split(m) ==
  { {m.players[1], m.players[2]}, {m.players[3], m.players[4]} }

\* C13: with a roster of exactly 4 x courts distinct players, every player
\* is in exactly one match of every finished round and in at most one of the
\* round under way, playCount counts the matches a player is in, and when
\* the call returns every playCount equals matchesPerCourt.
C13_FullRosterAllPlay ==
  (DistinctRoster /\ courts >= 1 /\ Len(players) = GroupSize * courts) =>
    /\ \A p \in ToSet(players) : \A r \in 1..matchesPerCourt :
         /\ Appearances(p, r) <= 1
         /\ (pc \in {"endRound", "returned"} /\ r <= round + 1)
              => Appearances(p, r) = 1
    /\ pc # "call" =>
         \A p \in ToSet(players) :
           playCount[p]
             = Cardinality({ m \in ToSet(matches) : p \in ToSet(m.players) })
    /\ pc = "returned" =>
         /\ Len(result) = courts * matchesPerCourt
         /\ \A p \in ToSet(players) : playCount[p] = matchesPerCourt

\* The call has returned for 4 x MaxCourts players on MaxCourts courts.
C13_Witness ==
  /\ pc = "returned"
  /\ players = FullRoster
  /\ courts = MaxCourts
  /\ Len(result) = MaxCourts

\* C14: 4 players, one court, 3 rounds and empty histories give 3 matches
\* that each hold all 4 players, and the 3 matches do not all split the
\* players into the same two teams.
C14_TeamsVary ==
  ( /\ pc = "returned"
    /\ DistinctRoster /\ Len(players) = GroupSize
    /\ courts = 1 /\ matchesPerCourt = LongRun
    /\ pairingHistory = EmptyMap /\ opponentHistory = EmptyMap ) =>
    /\ Len(result) = LongRun
    /\ \A i \in 1..Len(result) : ToSet(result[i].players) = ToSet(players)
    /\ \E i, j \in 1..Len(result) : Split(result[i]) # Split(result[j])

\* The call has returned 3 matches of the 4 players under empty histories,
\* each with another split into teams.
C14_Witness ==
  /\ pc = "returned"
  /\ Len(players) = GroupSize
  /\ pairingHistory = EmptyMap /\ opponentHistory = EmptyMap
  /\ Len(result) = LongRun
  /\ Cardinality({ Split(result[i]) : i \in 1..Len(result) }) = LongRun

\* The largest difference between two roster players' playCount.
PlaySpread ==
  LET counts == { playCount[p] : p \in ToSet(players) }
  IN (CHOOSE hi \in counts : \A c \in counts : c <= hi)
       - (CHOOSE lo \in counts : \A c \in counts : lo <= c)

WithinRunCeiling ==
  (LongRun - 1) * (LocalPairWeight + LocalPairWeight + MatchupWeight
                     + GroupSize + GroupSize * ArrRestWeight)

\* C16: with an empty opponent history and a teammate history whose only
\* entry is a pair counted so often that 10 x count squared exceeds every
\* within-run penalty, the two players of the pair are on the same team of
\* no match, built or returned.
C16_RivalsApart ==
  ( /\ DistinctRoster /\ Len(players) >= GroupSize * courts
    /\ opponentHistory = EmptyMap
    /\ DOMAIN pairingHistory = {<<1, 2>>}
    /\ TeamWeight * pairingHistory[<<1, 2>>] * pairingHistory[<<1, 2>>]
         > WithinRunCeiling ) =>
    \A m \in Emitted : {1, 2} \notin Split(m)

\* The call has returned LongRun matches that all hold both players of the
\* pair of the teammate history, for a roster of 4 and for a larger one.
C16_Witness ==
  /\ pc = "returned"
  /\ DOMAIN pairingHistory = {<<1, 2>>}
  /\ pairingHistory[<<1, 2>>] = HighCount
  /\ opponentHistory = EmptyMap
  /\ Len(players) > GroupSize
  /\ Len(result) = LongRun
  /\ \A i \in 1..Len(result) : {1, 2} \subseteq ToSet(result[i].players)

\* C19: with a roster of at least 4 x courts distinct players, no player is
\* in more than one match of a round, and every player of a slot's match
\* was unassigned in the round when the slot was filled.
C19_OncePerRound ==
  [][ (DistinctRoster /\ courts >= 1 /\ Len(players) >= GroupSize * courts) =>
        /\ \A p \in ToSet(players) : \A r \in 1..matchesPerCourt :
             Appearances(p, r) <= 1
        /\ Len(matches') > Len(matches) =>
             /\ ToSet(matches'[Len(matches')].players) \cap assignedInRound = {}
             /\ assignedInRound'
                  = assignedInRound \cup ToSet(matches'[Len(matches')].players)
    ]_vars

\* The second court of a round has been filled for 4 x MaxCourts players.
C19_Witness ==
  /\ players = FullRoster
  /\ courts = MaxCourts
  /\ Len(matches) = MaxCourts
  /\ matches[MaxCourts].court = MaxCourts
  /\ assignedInRound = ToSet(players)

\* ------------------------------------------- claims about the rest counts
\* Whether player p is in a match of round r (1-based).
PlayedIn(p, r) ==
  \E i \in 1..Len(matches) : matches[i].round = r /\ p \in ToSet(matches[i].players)

\* The rounds whose end-of-round update has run.
RoundsDone == IF pc = "returned" THEN round + 1 ELSE round

\* A round boundary: the first court slot of a round is about to be filled,
\* or the last round has ended.
AtRoundBoundary ==
  \/ pc = "court" /\ court = 1
  \/ pc = "returned" /\ matches # <<>>

RECURSIVE StreakFrom(_, _)
\* The number of rounds r, r - 1, ... in a row that player p is in no match of.
StreakFrom(p, r) ==
  IF r = 0 \/ PlayedIn(p, r) THEN 0 ELSE 1 + StreakFrom(p, r - 1)

RECURSIVE CycleCount(_)
\* For every player, the number of rounds up to round r, counted from the
\* last round after which every player had a count of 1 or more, in which
\* the player is in no match.
CycleCount(r) ==
  IF r = 0 THEN [p \in ToSet(players) |-> 0]
  ELSE LET before == CycleCount(r - 1)
           after == [p \in ToSet(players) |->
                       before[p] + (IF PlayedIn(p, r) THEN 0 ELSE 1)]
       IN IF \A p \in ToSet(players) : after[p] >= 1
            THEN [p \in ToSet(players) |-> 0]
            ELSE after

\* C17, as claimed: with noDoubleRest, at every round boundary a player's
\* restCount is the number of most recent rounds in a row in which the
\* player did not appear, and so is 0 for a player of the last round.
C17_RestIsStreak ==
  (noDoubleRest /\ DistinctRoster /\ AtRoundBoundary) =>
    \A p \in ToSet(players) : restCount[p] = StreakFrom(p, RoundsDone)

\* C17, amended: with noDoubleRest, at every round boundary a player's
\* restCount is the number of rounds of the current rest cycle in which the
\* player did not appear, a cycle ending, and every restCount going back to
\* 0, after a round that leaves every player with a count of 1 or more;
\* playing a round leaves a player's restCount as it is.
C17_RestIsCycleCount ==
  (noDoubleRest /\ DistinctRoster /\ AtRoundBoundary) =>
    \A p \in ToSet(players) : restCount[p] = CycleCount(RoundsDone)[p]

\* At the return a player of the last round has a restCount of 1 or more,
\* and another player has rested twice in the cycle.
C17_Witness ==
  /\ pc = "returned"
  /\ noDoubleRest
  /\ RoundsDone = LongRun
  /\ \E p \in ToSet(players) : PlayedIn(p, LongRun) /\ restCount[p] >= 1
  /\ \E p \in ToSet(players) : restCount[p] >= 2

\* C18: with noDoubleRest the end of a round adds 1 to the restCount of
\* exactly the players in no match of the round and then, if every player
\* has a restCount of 1 or more, sets every restCount to 0; no other step
\* changes a restCount, and at the start of every round some player has
\* restCount 0. Without noDoubleRest every restCount stays 0.
C18_RestUpdate ==
  [][ (DistinctRoster /\ pc # "call") =>
        /\ pc # "endRound" => restCount' = restCount
        /\ (pc = "endRound" /\ noDoubleRest) =>
             LET after == [p \in ToSet(players) |->
                             restCount[p]
                               + (IF PlayedIn(p, round + 1) THEN 0 ELSE 1)]
             IN restCount' = IF \A p \in ToSet(players) : after[p] >= 1
                               THEN [p \in ToSet(players) |-> 0]
                               ELSE after
        /\ (pc' = "court" /\ court' = 1) =>
             \E p \in ToSet(players) : restCount'[p] = 0
        /\ ~noDoubleRest => \A p \in ToSet(players) : restCount'[p] = 0
    ]_vars

\* A round has ended with every player having rested once in the cycle, and
\* every restCount is 0 again.
C18_Witness ==
  /\ noDoubleRest
  /\ DistinctRoster
  /\ AtRoundBoundary
  /\ RoundsDone = LongRun
  /\ \A p \in ToSet(players) : restCount[p] = 0
  /\ \A p \in ToSet(players) : \E r \in 1..RoundsDone : ~PlayedIn(p, r)

\* C20: the player at position 0 of a match built by the normal path was
\* unassigned when the slot was filled, and at most 2 unassigned players
\* then had a strictly smaller rank key, the key being (restCount,
\* playCount) with noDoubleRest and playCount without.
C20_FirstAmongTopThree ==
  [][ ( /\ pc = "court"
        /\ PoolLength >= GroupSize
        /\ Len(matches') > Len(matches) ) =>
        LET first == matches'[Len(matches')].players[1]
            pool == ToSet(players) \ assignedInRound
        IN /\ first \in pool
           /\ Cardinality({ p \in pool : RankLess(p, first) }) < TopK
    ]_vars

\* A second round of 5 players has been played with noDoubleRest, its first
\* pick being neither the best ranked of the pool nor the player who rested.
C20_Witness ==
  /\ pc = "returned"
  /\ noDoubleRest
  /\ DistinctRoster
  /\ Len(players) > GroupSize
  /\ courts = 1
  /\ Len(result) = 2
  /\ result[2].players[1] \in ToSet(result[1].players)
  /\ \E p \in ToSet(result[1].players) :
       /\ p # result[2].players[1]
       /\ IdLess(p, result[2].players[1])

\* ------------------------------------- claims about the team arrangement
\* C21: the arrangement recorded by the normal path has, on the counters as
\* they stand before the match is recorded, an arrangementPenalty no greater
\* than that of either other way of splitting its four players into two
\* teams of two.
C21_LowestPenalty ==
  [][ ( /\ pc = "court"
        /\ PoolLength >= GroupSize
        /\ Len(matches') > Len(matches) ) =>
        LET g == matches'[Len(matches')].players
        IN /\ arrangementPenalty(g) <= arrangementPenalty(Try1(g))
           /\ arrangementPenalty(g) <= arrangementPenalty(Try2(g))
    ]_vars

\* The one match of a run is recorded with teams that never played
\* together, while another split of its players has a team with a history.
C21_Witness ==
  /\ pc = "returned"
  /\ Len(result) = 1
  /\ LET g == result[1].players
     IN /\ teammatePenalty(g[1], g[2], pairingHistory) = 0
        /\ teammatePenalty(g[3], g[4], pairingHistory) = 0
        /\ \/ teammatePenalty(g[1], g[3], pairingHistory) > 0
           \/ teammatePenalty(g[2], g[4], pairingHistory) > 0
           \/ teammatePenalty(g[1], g[4], pairingHistory) > 0
           \/ teammatePenalty(g[2], g[3], pairingHistory) > 0

\* ----------------------------------------- claims about the two penalties
\* The history tables of the runs that exercise the penalties: a teammate
\* count of up to MaxTable for one pair and an opponent count of up to
\* MaxTable for another.
PenaltyHistories ==
  { [team |-> t, opp |-> o] :
      t \in {EmptyMap} \cup { [k \in {<<1, 2>>} |-> c] : c \in 1..MaxTable },
      o \in {EmptyMap} \cup { [k \in {<<2, 4>>} |-> c] : c \in 1..MaxTable } }

\* One match of 4 distinct players under the PenaltyHistories.
InitPenalty ==
  /\ playersIsArray = TRUE
  /\ players = [i \in 1..GroupSize |-> i]
  /\ courts = 1
  /\ matchesPerCourt = 1
  /\ noDoubleRest = FALSE
  /\ randomize = FALSE
  /\ date \in Dates
  /\ \E h \in PenaltyHistories :
       pairingHistory = h.team /\ opponentHistory = h.opp
  /\ clock = 1
  /\ callNo = 1
  /\ prior = NoPrior
  /\ Fresh
  /\ OthersIdle

SpecPenalty == InitPenalty /\ [][NextLong]_vars

\* The count a table holds for the unordered pair {a, b}: the entry keyed
\* by the smaller id and then the larger, 0 when there is none.
PairCount(table, a, b) ==
  LET key == <<Min2(a, b), Max2(a, b)>>
  IN IF key \in DOMAIN table THEN table[key] ELSE 0

\* C22: teammatePenalty(a, b) is the square of the teammate-history count
\* of the unordered pair {a, b} and opponentPenalty(a, b) is the
\* opponent-history count of the pair; both are the same for either order
\* of the arguments and 0 when the pair has no entry in the table.
C22_PenaltiesByPair ==
  \A a \in 1..GroupSize, b \in 1..GroupSize :
    /\ teammatePenalty(a, b, pairingHistory)
         = PairCount(pairingHistory, a, b) * PairCount(pairingHistory, a, b)
    /\ opponentPenalty(a, b, opponentHistory) = PairCount(opponentHistory, a, b)
    /\ teammatePenalty(a, b, pairingHistory) = teammatePenalty(b, a, pairingHistory)
    /\ opponentPenalty(a, b, opponentHistory) = opponentPenalty(b, a, opponentHistory)
    /\ (<<a, b>> \notin DOMAIN pairingHistory /\ <<b, a>> \notin DOMAIN pairingHistory)
         => teammatePenalty(a, b, pairingHistory) = 0
    /\ (<<a, b>> \notin DOMAIN opponentHistory /\ <<b, a>> \notin DOMAIN opponentHistory)
         => opponentPenalty(a, b, opponentHistory) = 0

\* A match has been built under a teammate count of MaxTable for players 1
\* and 2, whose penalty in either order is its square, and an opponent
\* count above 1 for players 2 and 4.
C22_Witness ==
  /\ pc = "returned"
  /\ Len(result) = 1
  /\ teammatePenalty(2, 1, pairingHistory) = MaxTable * MaxTable
  /\ opponentPenalty(4, 2, opponentHistory) > 1
  /\ teammatePenalty(1, 3, pairingHistory) = 0

\* ------------------------------------------ claims about the bookkeeping
\* The two teams of a match, each as a set of players.
Teams(m) == { {m.players[1], m.players[2]}, {m.players[3], m.players[4]} }

\* C23: after every match built, on the normal and on the fallback path,
\* playCount[p] is the number of matches built so far that contain p,
\* pairUsage of a pair the number in which the two are teammates, and
\* matchupUsage of a team-versus-team key the number played between the
\* two teams; the maps count nothing else.
C23_CountersAgree ==
  (pc # "call" /\ DistinctRoster) =>
    LET ids == ToSet(players)
        all == 1..Len(matches)
        teams == { t \in SUBSET ids : Cardinality(t) = 2 }
        KeyOf(t) == LET a == CHOOSE x \in t : TRUE
                        b == CHOOSE x \in t : x # a
                    IN canonicalPairKey(a, b)
    IN /\ \A p \in ids :
            Get(playCount, p)
              = Cardinality({ i \in all : p \in ToSet(matches[i].players) })
       /\ \A t \in teams :
            Get(pairUsage, KeyOf(t))
              = Cardinality({ i \in all : t \in Teams(matches[i]) })
       /\ \A t \in teams, u \in teams :
            Get(matchupUsage, MatchKey(KeyOf(t), KeyOf(u)))
              = Cardinality({ i \in all : Teams(matches[i]) = {t, u} /\ t # u })
       /\ DOMAIN pairUsage \subseteq { KeyOf(t) : t \in teams }
       /\ DOMAIN matchupUsage
            \subseteq { MatchKey(KeyOf(t), KeyOf(u)) : t \in teams, u \in teams }

\* A run has returned a match of the normal path and one of the fallback
\* path, and a team has played together twice.
C23_Witness ==
  /\ pc = "returned"
  /\ DistinctRoster
  /\ \E m \in ToSet(matches) : BuiltByFallback(m)
  /\ \E m \in ToSet(matches) : ~BuiltByFallback(m)
  /\ \E k \in DOMAIN pairUsage : pairUsage[k] = 2

\* ---------------------------------------- claims about the fallback path
\* One round on two courts by a roster of MaxPlayers distinct players: the
\* first slot takes the normal path and leaves fewer than 4 players to the
\* second, which falls back on baseOrder as the swaps have left it.
InitFallback ==
  /\ playersIsArray = TRUE
  /\ players = [i \in 1..MaxPlayers |-> i]
  /\ courts = MaxCourts
  /\ matchesPerCourt = 1
  /\ noDoubleRest = FALSE
  /\ randomize = FALSE
  /\ date \in Dates
  /\ pairingHistory = EmptyMap /\ opponentHistory = EmptyMap
  /\ clock = 1
  /\ callNo = 1
  /\ prior = NoPrior
  /\ Fresh
  /\ OthersIdle

NextFallback ==
  \/ Begin /\ Single
  \/ NormalSlotFine /\ Single
  \/ FallbackSlot /\ Single
  \/ EndRound /\ Single

SpecFallback == InitFallback /\ [][NextFallback]_vars

\* C24: when a court slot finds fewer than 4 players unassigned in the
\* round, the fallback match holds every player not yet assigned in the
\* round, and players assigned already only fill the places that remain.
C24_FallbackTakesUnplayed ==
  [][ ( /\ pc = "court"
        /\ DistinctRoster
        /\ PoolLength < GroupSize
        /\ Len(matches') > Len(matches) ) =>
        (ToSet(players) \ assignedInRound)
          \subseteq ToSet(matches'[Len(matches')].players)
    ]_vars

\* ------------------------------------------------- two calls in sequence
\* generateSchedule keeps nothing between calls: every counter, the rng and
\* the match list are locals of the call (lines 79-117). A second call with
\* the same arguments starts from the state of a call that has not started,
\* at the same tick of Date.now() or a later one.
CallAgain ==
  /\ callNo = 1
  /\ pc \in {"returned", "threw"}
  /\ callNo' = 2
  /\ clock' \in { c \in {clock, clock + 1} : c <= MaxClock }
  /\ prior' = [seed |-> seed, pc |-> pc, result |-> result, trail |-> prior.trail]
  /\ pc' = "call"
  /\ seed' = NoSeed
  /\ baseOrder' = <<>>
  /\ totalMatches' = 0
  /\ roundsNeeded' = 0
  /\ playCount' = EmptyMap
  /\ restCount' = EmptyMap
  /\ pairUsage' = EmptyMap
  /\ matchupUsage' = EmptyMap
  /\ matches' = <<>>
  /\ matchIndex' = 1
  /\ round' = 0
  /\ court' = 1
  /\ assignedInRound' = {}
  /\ result' = <<>>
  /\ UNCHANGED <<inputs, others>>

\* mulberry32(seed) is a function of the seed alone (lines 29-37), and the
\* call draws from no other source: the draws of a call are decided by its
\* seed. The first call's steps are kept in prior.trail; a step of the second
\* call under the same seed draws what the first call drew at that step.
Drawn ==
  /\ UNCHANGED <<clock, callNo, others>>
  /\ IF callNo = 1
       THEN prior' = [prior EXCEPT !.trail = Append(@, <<run, seed>>')]
       ELSE IF seed' = prior.seed /\ prior.trail # <<>>
         THEN /\ <<run, seed>>' = Head(prior.trail)
              /\ prior' = [prior EXCEPT !.trail = Tail(@)]
         ELSE prior' = prior

\* The two calls are made with the arguments of Init whose roster is one
\* group at most: every path of the call is taken, each slot of a round after
\* the first by the fallback. With randomize, where a second call at a later
\* tick draws afresh, the schedule asked for is of one match at most.
InitTwice ==
  /\ Init
  /\ Len(players) <= GroupSize
  /\ randomize => courts * matchesPerCourt <= 1

NextTwice ==
  \/ RejectNotArray /\ Drawn
  \/ ReturnTooFew /\ Drawn
  \/ ReturnNoMatches /\ Drawn
  \/ Begin /\ Drawn
  \/ FallbackSlot /\ Drawn
  \/ FallbackBreak /\ Drawn
  \/ NormalSlot /\ Drawn
  \/ NormalBreak /\ Drawn
  \/ EndRound /\ Drawn
  \/ CallAgain

SpecTwice == InitTwice /\ [][NextTwice]_vars

\* C7: with randomize false, a second call with the same players, courts,
\* matchesPerCourt, histories, date and noDoubleRest, made at any time, ends
\* as the first did and returns the same list of matches.
C7_Deterministic ==
  (callNo = 2 /\ ~randomize /\ pc \in {"returned", "threw"})
    => pc = prior.pc /\ result = prior.result

\* A second call without randomize, made a tick after the first, that has
\* returned a schedule of 2 rounds.
C7_Witness ==
  /\ callNo = 2
  /\ ~randomize
  /\ clock > 1
  /\ pc = "returned"
  /\ Len(result) >= 2
  /\ result[Len(result)].round = 2


\* ===================================================== generatePairSchedule
\* src/unnamed/part_003 (pairScheduler.js).  A pair is its id, 1..T, and the
\* pair of id t has the players 2t - 1 and 2t.  rng() is a nondeterministic
\* draw: a shuffle can leave every permutation.
MaxPairs == 6
MaxPairCourts == 2
MaxPairRounds == 3

\* { id: "__BYE__" }, the dummy team of an odd number of teams
Bye == 0
\* if (i > 1000) break
FillLimit == 1000

\* team.players
PairPlayers(t) == <<2 * t - 1, 2 * t>>

RECURSIVE PairShuffleFrom(_, _)
\* The arrays seededShuffle can leave from the 0-based position i downwards.
PairShuffleFrom(a, i) ==
  IF i <= 0 THEN {a}
  ELSE UNION { PairShuffleFrom(SwapAt(a, i, j), i - 1) : j \in PickIndex(i + 1) }

\* seededShuffle(arr, rng)
PairShuffle(arr) == PairShuffleFrom(arr, Len(arr) - 1)

\* const totalMatches = courts * matchesPerCourt
PairTotalMatches == pairCourts * pairMatchesPerCourt

\* Math.ceil((totalMatches * 2) / order.length)
PairRoundsNeeded == CeilDiv(PairTotalMatches * 2, Len(pairOrder))

\* The match of teams a and b pushed when n matches are there already.
PairMatch(n, a, b) ==
  [match_index |-> n + 1,
   round |-> (n \div pairCourts) + 1,
   court |-> (n % pairCourts) + 1,
   players |-> SubSeq(PairPlayers(a) \o PairPlayers(b), 1, GroupSize)]

RECURSIVE RoundPairsFrom(_, _)
\* roundPairs: (rot[i], rot[N - 1 - i]) for i < N / 2, without the bye.
RoundPairsFrom(r, i) ==
  IF 2 * i >= Len(r) THEN <<>>
  ELSE LET a == r[i + 1]
           b == r[Len(r) - i]
       IN (IF a = Bye \/ b = Bye THEN <<>> ELSE << <<a, b>> >>)
            \o RoundPairsFrom(r, i + 1)

RECURSIVE PushSlots(_, _, _)
\* The slot loop: the pairs of the round pushed in order while matches are
\* still wanted.
PushSlots(ms, prs, slot) ==
  IF slot > Len(prs) \/ Len(ms) >= PairTotalMatches THEN ms
  ELSE PushSlots(Append(ms, PairMatch(Len(ms), prs[slot][1], prs[slot][2])),
                 prs, slot + 1)

\* rot with its first element fixed and the rest rotated to the right:
\* rest.unshift(rest.pop())
RotateRest(r) ==
  IF Len(r) > 2
    THEN <<r[1], r[Len(r)]>> \o SubSeq(r, 2, Len(r) - 1)
    ELSE r

\* Line 51: if (!Array.isArray(pairs) || pairs.length < 2) return []
PairReturnEmpty ==
  /\ pairPc = "call"
  /\ ~pairsIsArray \/ Len(pairs) < 2
  /\ pairPc' = "returned"
  /\ pairResult' = <<>>
  /\ UNCHANGED <<pairArgs, pairOrder, rot, pairMatches, rotRound, fillIndex>>

\* Lines 53-80: the shuffle, the bye and the first rotation.
PairBegin ==
  /\ pairPc = "call"
  /\ pairsIsArray /\ Len(pairs) >= 2
  /\ \E shuffled \in PairShuffle(pairs) :
       pairOrder' = IF Len(shuffled) % 2 = 1 THEN Append(shuffled, Bye) ELSE shuffled
  /\ rot' = pairOrder'
  /\ pairMatches' = <<>>
  /\ rotRound' = 0
  /\ pairPc' = "rotation"
  /\ UNCHANGED <<pairArgs, fillIndex, pairResult>>

\* Lines 82-134: one pass of the rotation loop.
RotationRound ==
  /\ pairPc = "rotation"
  /\ rotRound < PairRoundsNeeded /\ Len(pairMatches) < PairTotalMatches
  /\ \E shuffledRoundPairs \in PairShuffle(RoundPairsFrom(rot, 0)) :
       pairMatches' = PushSlots(pairMatches, shuffledRoundPairs, 1)
  /\ rot' = RotateRest(rot)
  /\ rotRound' = rotRound + 1
  /\ UNCHANGED <<pairArgs, pairOrder, fillIndex, pairPc, pairResult>>

\* Lines 136-138: the rotation loop is over and matches are still wanted.
EnterFill ==
  /\ pairPc = "rotation"
  /\ ~(rotRound < PairRoundsNeeded /\ Len(pairMatches) < PairTotalMatches)
  /\ Len(pairMatches) < PairTotalMatches
  /\ fillIndex' = 0
  /\ pairPc' = "fill"
  /\ UNCHANGED <<pairArgs, pairOrder, rot, pairMatches, rotRound, pairResult>>

\* The fill-up loop accepting every two neighbours of order.
FillPlaysAny(tA, tB) == TRUE

\* The pairs the fill-up loop accepts: tA.id !== tB.id, neither the bye.
FillPlays(tA, tB) == tA # Bye /\ tB # Bye /\ tA # tB

\* Lines 139-158: one pass of the fill-up loop.
FillStep ==
  /\ pairPc = "fill"
  /\ Len(pairMatches) < PairTotalMatches
  /\ fillIndex <= FillLimit
  /\ LET tA == pairOrder[(fillIndex % Len(pairOrder)) + 1]
         tB == pairOrder[((fillIndex + 1) % Len(pairOrder)) + 1]
     IN pairMatches' = IF FillPlays(tA, tB)
                         THEN Append(pairMatches, PairMatch(Len(pairMatches), tA, tB))
                         ELSE pairMatches
  /\ fillIndex' = fillIndex + 1
  /\ UNCHANGED <<pairArgs, pairOrder, rot, rotRound, pairPc, pairResult>>

\* Line 161: return matches.slice(0, totalMatches)
PairReturn ==
  /\ \/ /\ pairPc = "rotation"
        /\ ~(rotRound < PairRoundsNeeded /\ Len(pairMatches) < PairTotalMatches)
        /\ Len(pairMatches) >= PairTotalMatches
     \/ /\ pairPc = "fill"
        /\ Len(pairMatches) >= PairTotalMatches \/ fillIndex > FillLimit
  /\ pairResult' = SubSeq(pairMatches, 1, Min2(Len(pairMatches), PairTotalMatches))
  /\ pairPc' = "returned"
  /\ UNCHANGED <<pairArgs, pairOrder, rot, pairMatches, rotRound, fillIndex>>

\* generateSchedule is not running.
SchedulerIdle ==
  /\ playersIsArray = FALSE
  /\ players = <<>>
  /\ courts = 0
  /\ matchesPerCourt = 0
  /\ noDoubleRest = FALSE
  /\ randomize = FALSE
  /\ date = <<>>
  /\ pairingHistory = EmptyMap /\ opponentHistory = EmptyMap
  /\ clock = 1
  /\ callNo = 1
  /\ prior = NoPrior
  /\ Fresh

\* The calls of generatePairSchedule: up to MaxPairs pairs of distinct ids.
InitPairs ==
  /\ SchedulerIdle
  /\ AssignIdle
  /\ DbIdle
  /\ AuthIdle
  /\ pairsIsArray \in BOOLEAN
  /\ pairs \in (IF pairsIsArray THEN { [i \in 1..n |-> i] : n \in 0..MaxPairs }
                                ELSE {<<>>})
  /\ pairCourts \in 1..MaxPairCourts
  /\ pairMatchesPerCourt \in 0..MaxPairRounds
  /\ pairOrder = <<>>
  /\ rot = <<>>
  /\ pairMatches = <<>>
  /\ rotRound = 0
  /\ fillIndex = 0
  /\ pairPc = "call"
  /\ pairResult = <<>>

\* The variables of the other programs stay as they are.
PairsOnly == UNCHANGED <<inputs, run, seed, calls, assignVars, dbVars, authVars>>

NextPairs ==
  \/ PairReturnEmpty /\ PairsOnly
  \/ PairBegin /\ PairsOnly
  \/ RotationRound /\ PairsOnly
  \/ EnterFill /\ PairsOnly
  \/ FillStep /\ PairsOnly
  \/ PairReturn /\ PairsOnly

SpecPairs == InitPairs /\ [][NextPairs]_vars

\* ------------------------------------------ claims about the pair schedule
\* The matches built so far and the matches returned.
PairEmitted == ToSet(pairMatches) \cup ToSet(pairResult)

\* The ids of the pairs that play the match m, read from its players.
PairsOf(m) ==
  { t \in ToSet(pairs) :
      \/ SubSeq(m.players, 1, 2) = PairPlayers(t)
      \/ SubSeq(m.players, 3, 4) = PairPlayers(t) }

\* C25: every match of generatePairSchedule is played by two different
\* pairs of the input, the first team's players followed by the second's:
\* the bye plays no match and no pair plays itself, in the rotation rounds
\* and in the fill-up loop.
C25_TwoInputPairs ==
  \A m \in PairEmitted :
    \E a \in ToSet(pairs), b \in ToSet(pairs) :
      /\ a # b
      /\ m.players = PairPlayers(a) \o PairPlayers(b)

\* A call with an odd number of pairs has returned all the matches asked
\* for, some from the rotation rounds and some from the fill-up loop, which
\* has gone past the bye.
C25_Witness ==
  /\ pairPc = "returned"
  /\ Len(pairs) % 2 = 1
  /\ rotRound > 0
  /\ fillIndex >= Len(pairOrder)
  /\ Len(pairResult) = PairTotalMatches
  /\ PairTotalMatches > 0

\* C26: with T >= 2 pairs and courts x matchesPerCourt <= T(T - 1) / 2, no
\* two matches returned are played by the same two pairs, for even and for
\* odd T.
C26_RoundRobin ==
  ( /\ pairPc = "returned"
    /\ Len(pairs) >= 2
    /\ 2 * PairTotalMatches <= Len(pairs) * (Len(pairs) - 1) ) =>
    \A i \in 1..Len(pairResult), j \in 1..Len(pairResult) :
      i # j => PairsOf(pairResult[i]) # PairsOf(pairResult[j])

\* C27: when courts <= floor(T / 2) for T pairs, no pair plays two of the
\* returned matches that carry the same round number.
C27_OncePerRound ==
  ( /\ pairPc = "returned"
    /\ pairsIsArray
    /\ pairCourts <= Len(pairs) \div 2 ) =>
    \A i \in 1..Len(pairResult), j \in 1..Len(pairResult) :
      (i # j /\ pairResult[i].round = pairResult[j].round)
        => PairsOf(pairResult[i]) \cap PairsOf(pairResult[j]) = {}

\* ===================================================== generateAssignments
\* src/src/App.jsx, lines 442-552 (assignments.js).  A player is a record
\* with an id and a last_played instant, 0 for none.  Math.random() is a
\* nondeterministic draw.
MaxAssignPlayers == 5
MaxAssignCourts == 2
MaxAssignMatches == 2
MaxAttempts == 2

\* const playersPerMatch = 4
PlayersPerMatch == 4
\* lastPlayedKey of a player who played lately: a date of 2025 in units of
\* 10^10 ms
Recent == 176
\* lastPlayedAvg * 1e-12, in the same units
TieScale == 100
\* (pairCounts[k] || 0) * 2
PairCountWeight == 2

\* lastPlayedKey(p)
lastPlayedKey(p) == p.last_played

\* pairKey(a, b): `${a}|${b}` or `${b}|${a}`, kept as a pair
pairKey(a, b) == IF a < b THEN <<a, b>> ELSE <<b, a>>

RECURSIVE InsertByKey(_, _)
\* s, sorted, with p put after the entries whose key is not greater.
InsertByKey(s, p) ==
  IF s = <<>> THEN <<p>>
  ELSE IF lastPlayedKey(Head(s)) <= lastPlayedKey(p)
    THEN <<Head(s)>> \o InsertByKey(Tail(s), p)
    ELSE <<p>> \o s

RECURSIVE SortByKey(_, _)
\* [...players].sort((a, b) => lastPlayedKey(a) - lastPlayedKey(b)), a
\* stable sort: the first n entries of s in order of key.
SortByKey(s, n) ==
  IF n = 0 THEN <<>> ELSE InsertByKey(SortByKey(s, n - 1), s[n])

baseSorted == SortByKey(assignPlayers, Len(assignPlayers))

\* const required = playersPerMatch * courts * numMatches
Required == PlayersPerMatch * assignCourts * numMatches

\* const actualSlots = Math.min(baseSorted.length, required)
ActualSlots == Min2(Len(baseSorted), Required)

\* array.slice(from): the entries after the first `from`
SliceFrom(s, from) == SubSeq(s, from + 1, Len(s))

restBase == SliceFrom(baseSorted, ActualSlots)

RECURSIVE ShakeFrom(_, _)
\* Lines 500-506: from position i on, each position is exchanged with a
\* drawn one when rng() < 0.12.
ShakeFrom(a, i) ==
  IF i >= Len(a) THEN {a}
  ELSE UNION { ShakeFrom(b, i + 1) :
               b \in {a} \cup { SwapAt(a, i, j) : j \in PickIndex(Len(a)) } }

RECURSIVE AssignmentsFrom(_, _, _, _)
\* Lines 511-526: the groups of 4 cut from taken, match by match and court
\* by court; a short group ends the courts of its match.
AssignmentsFrom(taken, m, c, idx) ==
  IF m >= numMatches THEN <<>>
  ELSE IF c > assignCourts \/ Len(taken) - idx < PlayersPerMatch
    THEN AssignmentsFrom(taken, m + 1, 1, idx)
    ELSE << [match_index |-> m + 1,
             court |-> c,
             players |-> SubSeq(taken, idx + 1, idx + PlayersPerMatch)] >>
           \o AssignmentsFrom(taken, m, c + 1, idx + PlayersPerMatch)

\* The sum of f over the sequence s of numbers.
RECURSIVE SumSeq(_)
SumSeq(s) == IF s = <<>> THEN 0 ELSE Head(s) + SumSeq(Tail(s))

\* Lines 476-494: the score of one assignment.
ScoreOf(a) ==
  LET ids == [i \in 1..Len(a.players) |-> a.players[i].id]
      n == Len(ids)
  IN SumSeq([i \in 1..n |->
              SumSeq([j \in 1..n |->
                       IF i < j
                         THEN Get(pairCounts, pairKey(ids[i], ids[j])) * PairCountWeight
                         ELSE 0])])
       + (IF n = 4
            THEN Get(oppCounts, pairKey(ids[1], ids[3]))
                   + Get(oppCounts, pairKey(ids[1], ids[4]))
                   + Get(oppCounts, pairKey(ids[2], ids[3]))
                   + Get(oppCounts, pairKey(ids[2], ids[4]))
            ELSE 0)

\* scoreForAssignments(assignments)
scoreForAssignments(assignments) ==
  SumSeq([i \in 1..Len(assignments) |-> ScoreOf(assignments[i])])

\* tieScore = sc + lastPlayedAvg * 1e-12, times the number of players in
\* the assignments and TieScale, which every attempt of a call shares.
TieScore(assignments) ==
  PlayersPerMatch * Len(assignments) * TieScale * scoreForAssignments(assignments)
    + SumSeq([i \in 1..Len(assignments) |->
               SumSeq([j \in 1..PlayersPerMatch |->
                        lastPlayedKey(assignments[i].players[j])])])

\* tieScore < best.score
ScoreLess(tieScore, bestScore) == bestScore = Infinity \/ tieScore < bestScore

\* Lines 453-454: no players
AssignReturnEmpty ==
  /\ assignPc = "call"
  /\ ~assignIsArray \/ Len(assignPlayers) = 0
  /\ assignResult' = NoBest
  /\ assignPc' = "returned"
  /\ UNCHANGED <<assignArgs, attempt, bestAttempt>>

\* Lines 463-471
AssignBegin ==
  /\ assignPc = "call"
  /\ assignIsArray /\ Len(assignPlayers) > 0
  /\ bestAttempt' = [assignments |-> <<>>, rest |-> restBase, score |-> Infinity]
  /\ attempt' = 0
  /\ assignPc' = "loop"
  /\ UNCHANGED <<assignArgs, assignResult>>

\* Lines 499-545: one attempt.
Attempt ==
  /\ assignPc = "loop"
  /\ attempt < attempts
  /\ \E shuffled \in ShakeFrom(baseSorted, 0) :
       LET taken == SubSeq(shuffled, 1, ActualSlots)
           rest == SliceFrom(shuffled, ActualSlots)
           assignments == AssignmentsFrom(taken, 0, 1, 0)
           sc == scoreForAssignments(assignments)
           tieScore == TieScore(assignments)
       IN IF ScoreLess(tieScore, bestAttempt.score)
            THEN /\ bestAttempt' = [assignments |-> assignments, rest |-> rest,
                                    score |-> tieScore]
                 /\ assignPc' = IF sc = 0 THEN "done" ELSE "loop"
            ELSE UNCHANGED <<bestAttempt, assignPc>>
  /\ attempt' = attempt + 1
  /\ UNCHANGED <<assignArgs, assignResult>>

\* Lines 547-551
AssignReturn ==
  /\ \/ assignPc = "loop" /\ attempt >= attempts
     \/ assignPc = "done"
  /\ assignResult' = bestAttempt
  /\ assignPc' = "returned"
  /\ UNCHANGED <<assignArgs, attempt, bestAttempt>>

\* The rosters: players 1..n, none of whom has played, or the odd ones
\* lately.
AssignRosters ==
  { [i \in 1..n |-> [id |-> i, last_played |-> IF i % 2 = 1 THEN late ELSE 0]] :
      n \in 0..MaxAssignPlayers, late \in {0, Recent} }

\* The count tables: empty, or one teammate pair and one opponent pair.
AssignCounts ==
  { [pair |-> EmptyMap, opp |-> EmptyMap],
    [pair |-> [k \in {<<1, 2>>} |-> 1], opp |-> [k \in {<<1, 3>>} |-> 1]] }

InitAssign ==
  /\ SchedulerIdle
  /\ PairIdle
  /\ DbIdle
  /\ AuthIdle
  /\ assignIsArray \in BOOLEAN
  /\ assignPlayers \in (IF assignIsArray THEN AssignRosters ELSE {<<>>})
  /\ assignCourts \in 0..MaxAssignCourts
  /\ numMatches \in 0..MaxAssignMatches
  /\ \E t \in AssignCounts : pairCounts = t.pair /\ oppCounts = t.opp
  /\ attempts \in 1..MaxAttempts
  /\ attempt = 0
  /\ bestAttempt = NoBest
  /\ assignPc = "call"
  /\ assignResult = NoBest

\* The variables of the other programs stay as they are.
AssignOnly == UNCHANGED <<inputs, run, seed, calls, pairVars, dbVars, authVars>>

NextAssign ==
  \/ AssignReturnEmpty /\ AssignOnly
  \/ AssignBegin /\ AssignOnly
  \/ Attempt /\ AssignOnly
  \/ AssignReturn /\ AssignOnly

SpecAssign == InitAssign /\ [][NextAssign]_vars

\* The number of places of the result that hold the player of id p: in the
\* players of the assignments and in rest.
PlacesOf(p) ==
  Cardinality({ <<i, j>> \in (1..Len(assignResult.assignments)) \X (1..PlayersPerMatch) :
                  assignResult.assignments[i].players[j].id = p })
    + Cardinality({ i \in 1..Len(assignResult.rest) : assignResult.rest[i].id = p })

\* C28: generateAssignments returns every input player exactly once, in the
\* players of one assignment or in rest, for every number of players,
\* courts and matches.
C28_EveryPlayerOnce ==
  assignPc = "returned" =>
    \A i \in 1..Len(assignPlayers) : PlacesOf(assignPlayers[i].id) = 1

\* ================================= saveScheduleToDb and createManualMatch
\* src/unnamed/part_005, lines 189-242 and 450-570 (supabase-actions.js).
\* Every await is a step of its own, so the calls of several callers
\* interleave; the table is the matches of one date, and each request to it
\* may fail.
MaxCallers == 2
MaxSchedule == 2
MaxStored == 1

\* playerIds.length < 4
ManualPlayers == 4

Callers == 1..MaxCallers

\* The calls: saveScheduleToDb with a schedule of `size` matches, or
\* createManualMatch with `size` player ids.
DbCallArgs ==
  { [kind |-> "save", size |-> n, pc |-> "call", index |-> 0, rowId |-> 0] :
      n \in 0..MaxSchedule }
  \cup
  { [kind |-> "manual", size |-> n, pc |-> "call", index |-> 0, rowId |-> 0] :
      n \in (ManualPlayers - 1)..ManualPlayers }

\* select("match_index").eq("match_date", dateStr)
\*   .order("match_index", {ascending: false}).limit(1).maybeSingle():
\* the highest match_index of the date, 0 standing for no row.
MaxMatchIndex ==
  IF dbMatches = {} THEN 0
  ELSE CHOOSE x \in { r.match_index : r \in dbMatches } :
         \A r \in dbMatches : r.match_index <= x

\* The call of caller c moves to position p with the local index i.
DbGoto(c, p, i) == dbCalls' = [dbCalls EXCEPT ![c].pc = p, ![c].index = i]

\* Lines 191-193: nothing to save
SaveEmpty(c) ==
  /\ dbCalls[c].kind = "save" /\ dbCalls[c].pc = "call"
  /\ dbCalls[c].size = 0
  /\ DbGoto(c, "returned", 0)
  /\ UNCHANGED <<dbMatches, dbNextId>>

\* Lines 203-219: the read of the current maximum; a failed read returns
\* the error.
SaveRead(c, ok) ==
  /\ dbCalls[c].kind = "save" /\ dbCalls[c].pc = "call"
  /\ dbCalls[c].size > 0
  /\ IF ok THEN DbGoto(c, "insert", MaxMatchIndex)
           ELSE DbGoto(c, "returned", 0)
  /\ UNCHANGED <<dbMatches, dbNextId>>

\* Lines 222-237: rows numbered currentMax + idx + 1, inserted at once.
SaveInsert(c, ok) ==
  /\ dbCalls[c].kind = "save" /\ dbCalls[c].pc = "insert"
  /\ IF ok
       THEN /\ dbMatches' = dbMatches \cup
                 { [id |-> dbNextId + idx,
                    match_index |-> dbCalls[c].index + idx + 1] :
                     idx \in 0..(dbCalls[c].size - 1) }
            /\ dbNextId' = dbNextId + dbCalls[c].size
       ELSE UNCHANGED <<dbMatches, dbNextId>>
  /\ DbGoto(c, "returned", dbCalls[c].index)

\* Lines 465-470: fewer than 4 player ids
ManualInvalid(c) ==
  /\ dbCalls[c].kind = "manual" /\ dbCalls[c].pc = "call"
  /\ dbCalls[c].size < ManualPlayers
  /\ DbGoto(c, "returned", 0)
  /\ UNCHANGED <<dbMatches, dbNextId>>

\* Lines 475-496: nextIndex is the maximum plus one, and 1 when there is no
\* row or the read fails.
ManualRead(c, ok) ==
  /\ dbCalls[c].kind = "manual" /\ dbCalls[c].pc = "call"
  /\ dbCalls[c].size >= ManualPlayers
  /\ IF ok /\ dbMatches # {} THEN DbGoto(c, "insert", MaxMatchIndex + 1)
                             ELSE DbGoto(c, "insert", 1)
  /\ UNCHANGED <<dbMatches, dbNextId>>

\* Lines 502-530: the insert of the one row.
ManualInsert(c, ok) ==
  /\ dbCalls[c].kind = "manual" /\ dbCalls[c].pc = "insert"
  /\ IF ok
       THEN /\ dbMatches' = dbMatches \cup
                 { [id |-> dbNextId, match_index |-> dbCalls[c].index] }
            /\ dbNextId' = dbNextId + 1
            /\ dbCalls' = [dbCalls EXCEPT ![c].pc = "scores",
                                          ![c].rowId = dbNextId]
       ELSE /\ UNCHANGED <<dbMatches, dbNextId>>
            /\ DbGoto(c, "returned", dbCalls[c].index)

\* Lines 533-561: the insert of the scores rows; when it fails the match
\* row is to be deleted.
ManualScores(c, ok) ==
  /\ dbCalls[c].kind = "manual" /\ dbCalls[c].pc = "scores"
  /\ DbGoto(c, IF ok THEN "returned" ELSE "cleanup", dbCalls[c].index)
  /\ UNCHANGED <<dbMatches, dbNextId>>

\* Lines 552-560: the delete of the match row, which may fail too.
ManualCleanup(c, ok) ==
  /\ dbCalls[c].kind = "manual" /\ dbCalls[c].pc = "cleanup"
  /\ dbMatches' = IF ok THEN { r \in dbMatches : r.id # dbCalls[c].rowId }
                        ELSE dbMatches
  /\ DbGoto(c, "returned", dbCalls[c].index)
  /\ UNCHANGED dbNextId

\* The table holds up to MaxStored rows of earlier calls, numbered from 1.
InitDb ==
  /\ SchedulerIdle
  /\ PairIdle
  /\ AssignIdle
  /\ AuthIdle
  /\ \E k \in 0..MaxStored :
       /\ dbMatches = { [id |-> n, match_index |-> n] : n \in 1..k }
       /\ dbNextId = k + 1
  /\ dbCalls \in [Callers -> DbCallArgs]

\* The variables of the other programs stay as they are.
DbOnly == UNCHANGED <<inputs, run, seed, calls, pairVars, assignVars, authVars>>

NextDb ==
  \/ \E c \in Callers : SaveEmpty(c) /\ DbOnly
  \/ \E c \in Callers, ok \in BOOLEAN : SaveRead(c, ok) /\ DbOnly
  \/ \E c \in Callers, ok \in BOOLEAN : SaveInsert(c, ok) /\ DbOnly
  \/ \E c \in Callers : ManualInvalid(c) /\ DbOnly
  \/ \E c \in Callers, ok \in BOOLEAN : ManualRead(c, ok) /\ DbOnly
  \/ \E c \in Callers, ok \in BOOLEAN : ManualInsert(c, ok) /\ DbOnly
  \/ \E c \in Callers, ok \in BOOLEAN : ManualScores(c, ok) /\ DbOnly
  \/ \E c \in Callers, ok \in BOOLEAN : ManualCleanup(c, ok) /\ DbOnly

SpecDb == InitDb /\ [][NextDb]_vars

\* C29: under any interleaving of saveScheduleToDb and createManualMatch
\* calls for the same date, no two stored matches of the date have the same
\* match_index.
C29_DistinctMatchIndex ==
  \A r1, r2 \in dbMatches : r1.match_index = r2.match_index => r1.id = r2.id

\* ============================================ useAuth and ProtectedRoute
\* src/unnamed/part_006 (useAuth.js) and src/src/components/ConfirmModal.jsx,
\* lines 45-53 (ProtectedRoute.jsx).  The auth service holds the session;
\* sign-ins and sign-outs are steps of the environment.
MaxAuthChanges == 2

\* The users who can sign in.
Users == {"u1", "u2"}

\* ProtectedRoute, lines 50-52: nothing for null, the children for a user,
\* the redirect to /auth for any other value.
RouteView(u) ==
  IF u = NoSession THEN "blank"
  ELSE IF u \in Users THEN "children"
  ELSE "redirect"

\* setUser(u) when mounted: the state is set, and a render is due when the
\* value is a new one.
SetUser(u) ==
  IF mounted
    THEN /\ authUser' = u
         /\ renderPending' = (renderPending \/ u # authUser)
    ELSE UNCHANGED <<authUser, renderPending>>

\* ProtectedRoute renders: the first time, and after each change of user.
Render ==
  /\ authPc # "idle"
  /\ view = "idle" \/ renderPending
  /\ view # "left"
  /\ view' = RouteView(authUser)
  /\ renderPending' = FALSE
  /\ UNCHANGED <<authSession, authUser, mounted, authPc, authEvents, authChanges>>

\* useAuth, lines 7-18: the effect after the first render starts
\* getSession() and subscribes the listener.
Effect ==
  /\ authPc = "opened"
  /\ view \notin {"idle", "left"}
  /\ mounted' = TRUE
  /\ authPc' = "pending"
  /\ UNCHANGED <<authSession, authUser, authEvents, authChanges, renderPending, view>>

\* useAuth, lines 10-11: getSession() resolves.
SessionChecked ==
  /\ authPc = "pending"
  /\ SetUser(authSession)
  /\ authPc' = "checked"
  /\ UNCHANGED <<authSession, mounted, authEvents, authChanges, view>>

\* A sign-in or a sign-out: the session changes, and the listener, when
\* subscribed, is to hear of it.
SessionChange ==
  /\ authPc # "idle"
  /\ authChanges < MaxAuthChanges
  /\ \E s \in (Users \cup {NoSession}) \ {authSession} :
       /\ authSession' = s
       /\ authEvents' = IF mounted THEN Append(authEvents, s) ELSE authEvents
  /\ authChanges' = authChanges + 1
  /\ UNCHANGED <<authUser, mounted, authPc, renderPending, view>>

\* useAuth, lines 15-17: the listener hears of a change.
Listener ==
  /\ authEvents # <<>>
  /\ SetUser(Head(authEvents))
  /\ authEvents' = Tail(authEvents)
  /\ UNCHANGED <<authSession, mounted, authPc, authChanges, view>>

\* useAuth, lines 20-23: the route is left; the cleanup of the effect.
Unmount ==
  /\ mounted
  /\ mounted' = FALSE
  /\ authEvents' = <<>>
  /\ view' = "left"
  /\ renderPending' = FALSE
  /\ UNCHANGED <<authSession, authUser, authPc, authChanges>>

\* A visitor, with a session or without, opens the protected route.
InitAuth ==
  /\ SchedulerIdle
  /\ PairIdle
  /\ AssignIdle
  /\ DbIdle
  /\ authSession \in Users \cup {NoSession}
  /\ authUser = NoSession
  /\ mounted = FALSE
  /\ authPc = "opened"
  /\ authEvents = <<>>
  /\ authChanges = 0
  /\ renderPending = FALSE
  /\ view = "idle"

\* The variables of the other programs stay as they are.
AuthOnly == UNCHANGED <<inputs, run, seed, calls, pairVars, assignVars, dbVars>>

NextAuth ==
  \/ Render /\ AuthOnly
  \/ Effect /\ AuthOnly
  \/ SessionChecked /\ AuthOnly
  \/ SessionChange /\ AuthOnly
  \/ Listener /\ AuthOnly
  \/ Unmount /\ AuthOnly

SpecAuth == InitAuth /\ [][NextAuth]_vars

\* C30: once the session check has completed for a visitor who has no
\* session and never had one, and the route has nothing left to do (no
\* change waits for the listener, no render is due), the route shows the
\* redirect to /auth; it does not stay blank.
C30_RedirectedOnceChecked ==
  ( /\ authPc = "checked"
    /\ mounted
    /\ authSession = NoSession
    /\ authChanges = 0
    /\ authEvents = <<>>
    /\ ~renderPending )
  => view = "redirect"

====
